---- MODULE Spec2Model ----
(***************************************************************************)
(* Model of the workflow isolate's worker interface (overrideGlobals,      *)
(* initRuntime, activate, concludeActivation, inject,                      *)
(* resolveExternalDependencies, tryUnblockConditions) and of the worker's  *)
(* Workflow class that drives it (processExternalCalls, Workflow.activate).*)
(*                                                                         *)
(* Two specifications share the isolate's operations:                      *)
(*   Spec      the operations called in any order with any arguments;      *)
(*   HostSpec  the operations called as the Workflow class calls them.     *)
(***************************************************************************)
EXTENDS Integers, Sequences, FiniteSets, TLC

\* ------------------------------------------------------------------ bounds
\* Cap of the number of operations the workflow code performs in one run.
MaxOps == 2
\* The seqs a job, a result entry or a clearTimeout handle may name: 0..MaxSeq-1.
MaxSeq == 2
\* Cap of the length of a list the worker passes: an activation's jobs, the
\* entries of resolveExternalDependencies.
MaxList == 2
\* Cap of the number of jobs the activate calls of one run carry in total.
MaxJobs == 2
\* Cap of the number of blocked conditions tryUnblockConditions is given.
MaxConditions == 3
\* Cap of the number of overrideGlobals calls on one isolate.
MaxOverrides == 2

\* ------------------------------------------------------------------- state
VARIABLES
  \* the isolate's state singleton
  info,                  \* state.info: [set, isReplaying]
  require,               \* state.require is installed
  now,                   \* state.now
  completed,             \* state.completed
  commands,              \* state.commands
  nextSeqs,              \* state.nextSeqs
  completions,           \* state.completions: kind -> set of registered seqs
  blockedConditions,     \* state.blockedConditions: sequence of [seq, fn]
  pendingExternalCalls,  \* state.pendingExternalCalls
  dependencies,          \* state.dependencies: name -> apply mode of the stub
  interceptors,          \* state.interceptors.internals
  workflow,              \* state.workflow is set
  \* the position of the code running in the isolate
  mode,                  \* "idle", "activate", "micro" (microtasks of a call), "dead"
  act,                   \* the activate call in progress
  runnable,              \* workflow code has a continuation to run
  \* the workflow code's own variables
  flags,
  \* what the workflow code and the caller observe
  promises,              \* dependency seq -> the promise the ASYNC stub returned: its
                         \* status, its value, and the result entry that settled it
  settled,               \* kind -> seq -> number of resolve/reject calls on the completion
  allocated,             \* kind -> the seqs taken from state.nextSeqs[kind], in order
  callbacks,             \* timer seq -> number of invocations of the setTimeout callback
  pushed,                \* every command given to pushCommand, in order
  flushed,               \* the commands of every 'complete' conclusion, in order
  nJobs,                 \* jobs given to activate so far
  nOps,                  \* operations of the workflow code so far
  \* the isolate's globals
  overrides,             \* number of overrideGlobals calls so far
  random,                \* state.random: the generator's seed and the values drawn
  drawn,                 \* the values Math.random returned, in order
  logger,                \* the worker's DefaultLogger and the entries it passed on
  handover,              \* the external calls enqueued, and those handed out, in order,
                         \* and the seqs issued that entries of
                         \* resolveExternalDependencies named
  hookEvents,            \* what an observing interceptor logged since the last
                         \* 'complete' conclusion
  ev,                    \* the last step and what it returned or raised
  \* the worker's Workflow object
  hostPc,                \* where Workflow.activate stands: "idle", "batch", "inBatch",
                         \* "process", "unblock", "conclude", "catch", "flush", "thrown"
  hostDeps,              \* this.dependencies: the names registered
  hostAct,               \* the Workflow.activate call in progress
  hostCalls              \* the external calls received and not yet processed

isolate == <<info, require, now, completed, commands, nextSeqs, completions,
             blockedConditions, pendingExternalCalls, dependencies, interceptors, workflow>>
position == <<mode, act, runnable>>
observed == <<promises, settled, allocated, callbacks, pushed, flushed, nJobs>>
host == <<hostPc, hostDeps, hostAct, hostCalls>>
engine == <<overrides, random, drawn, logger>>
globals == <<engine, handover>>
vars == <<isolate, position, flags, observed, nOps, globals, hookEvents, ev, host>>

\* ------------------------------------------------------------------ values
\* A protobuf Timestamp is <<seconds, nanos>>; a null timestamp is <<>>.
Timestamps == {<<>>, <<1, 500000000>>}
InitialNows == {5}

\* The values crossing the isolate boundary as result or error of an external
\* call are "undefined", "0", "ok" and "boom"; the first two are falsy in
\* JavaScript, the others truthy.
Truthy(v) == v \notin {"undefined", "0"}

ArgValues == {<<42>>}
\* The dependencies the worker is configured with, in the order it injects them.
DepNames == {<<"blocker", "block">>, <<"metrics", "emit">>, <<"logger", "log">>}
Injections ==
  << <<<<"blocker", "block">>, "ASYNC">>,
     <<<<"metrics", "emit">>, "ASYNC_IGNORED">>,
     <<<<"logger", "log">>, "SYNC_IGNORED">> >>
Injected == Cardinality({n \in DepNames : dependencies[n] # "none"})
SetUp == info.set /\ mode = "idle" /\ Injected = Len(Injections)

Flags == {"x"}

\* A decoded job: its variant ("undefined" when no field of the oneof is set),
\* whether job[job.variant] is truthy, and the seq of a fireTimer job.
Job(v, s, q) == [variant |-> v, set |-> s, seq |-> q]
Jobs ==
  {Job(v, TRUE, 0) : v \in {"startWorkflow", "queryWorkflow"}}
    \cup {Job("fireTimer", TRUE, q) : q \in 0..(MaxSeq - 1)}
    \cup {Job("undefined", FALSE, 0), Job("startWorkflow", FALSE, 0)}

\* The job names a variant and carries its payload.
WellFormed(job) == job.variant # "undefined" /\ job.set

SeqsUpTo(S, n) == UNION {[1..k -> S] : k \in 0..n}

\* The activations the core sends: a query-only activation carries no timestamp
\* (and is not replayed here), any other carries one (and is replayed here).
QueryOnly(js) == \A i \in 1..Len(js) : js[i].variant = "queryWorkflow"
Activations ==
  {[timestamp |-> <<>>, isReplaying |-> FALSE, jobs |-> js] :
     js \in {x \in SeqsUpTo(Jobs, MaxList) : QueryOnly(x)}}
  \cup
  {[timestamp |-> t, isReplaying |-> TRUE, jobs |-> js] :
     t \in Timestamps \ {<<>>}, js \in SeqsUpTo(Jobs, MaxList)}

\* The activate call in progress: its timestamp and batchIndex, the jobs
\* jobs.map has still to start, whether
\* the handler just called runs its synchronous part, the number of jobs whose
\* handler was called and that have not run tryUnblockConditions yet, and the
\* first error a job threw.
NoAct == [jobs |-> <<>>, sync |-> FALSE, conts |-> 0, error |-> <<>>,
          timestamp |-> <<>>, batchIndex |-> 0,
          index |-> 0, handlers |-> {}, coders |-> {}, by |-> 0, bySync |-> FALSE]

\* The Workflow.activate call in progress: the activation, the batches still to
\* run, batchIndex, numBlockedConditions of the last result, the loop
\* ("batch" or "conclude") that processes the external calls held, and the
\* arguments of the activate calls made so far.
NoHostAct == [activation |-> <<>>, batches |-> <<>>, batchIndex |-> 0,
              numBlocked |-> 0, loop |-> "batch", sent |-> <<>>,
              calls |-> <<>>, caught |-> <<>>, thrown |-> <<>>]

\* ------------------------------------------------------- internals (state)
\* tsToMs of @temporalio/common: whole milliseconds of a protobuf Timestamp.
tsToMs(ts) == ts[1] * 1000 + (ts[2] \div 1000000)

\* state.pushCommand: append to the command buffer.
pushCommand(cmd) ==
  /\ commands' = Append(commands, cmd)
  /\ pushed' = Append(pushed, cmd)

Command(t, q) == [type |-> t, seq |-> q]

\* consumeCompletion(kind, seq): the entry is found (and then removed) or the
\* call fails with IllegalStateError.
Consumed(comps, kind, q) == [comps EXCEPT ![kind] = @ \ {q}]

\* The completion's resolve or reject is called once more.
Called(st, kind, q) ==
  [st EXCEPT ![kind] = IF q \in DOMAIN @ THEN [@ EXCEPT ![q] = @ + 1] ELSE (q :> 1) @@ @]

\* Workflow code runs: the synchronous part of the handler just invoked while
\* activate still dispatches jobs, a runnable continuation afterwards.
Dispatching == mode = "activate" /\ act.jobs # <<>>
CodeRuns ==
  /\ nOps < MaxOps
  /\ \/ Dispatching /\ act.sync
     \/ mode = "activate" /\ ~Dispatching /\ runnable
     \/ mode = "micro" /\ runnable

\* One more operation of the workflow code.
Op == nOps' = nOps + 1

\* ----------------------------------------------- state.random (alea)
\* The generator alea(seed) builds and the i-th value it yields: a function of
\* the seed and of the number of values drawn before.
NoRandom == [set |-> FALSE, seed |-> 0, draws |-> 0]
alea(seed) == [set |-> TRUE, seed |-> seed, draws |-> 0]
AleaValue(seed, i) == (seed * 5 + i * 3) % 7

\* What Math.random reads after `calls` calls of overrideGlobals.
RandomSourceEngine(calls) == "engine"
RandomSource(calls) == IF calls > 0 THEN "state.random" ELSE "engine"

\* Math.random(): the next value of state.random once overrideGlobals replaced
\* it, any value of the engine's own generator before.
mathRandom ==
  /\ CodeRuns /\ Op
  /\ IF RandomSource(overrides) = "state.random"
       THEN /\ random.set
            /\ random' = [random EXCEPT !.draws = @ + 1]
            /\ drawn' = Append(drawn, AleaValue(random.seed, random.draws + 1))
       ELSE /\ \E v \in 0..6 : drawn' = Append(drawn, v)
            /\ UNCHANGED random
  /\ ev' = [op |-> "Math.random", value |-> drawn'[Len(drawn')]]
  /\ UNCHANGED <<isolate, position, flags, observed, overrides, logger, handover,
                 hookEvents, host>>

\* ------------------------------------------------ overrideGlobals: Date
\* What the engine's own Date yields: the host clock without argument, the
\* time value of its argument otherwise; Date.parse of a date string.
DateArgs == {<<>>, <<7>>, <<1500>>}
DateStrings == {"1970-01-01T00:00:01Z", "1970-01-01T00:00:02Z"}
NativeDate(args) == IF args = <<>> THEN "host clock" ELSE args[1]
NativeParse(str) == IF str = "1970-01-01T00:00:01Z" THEN 1000 ELSE 2000

\* new Date(...args) after `layers` calls of overrideGlobals: each call wraps
\* the Date it finds (OriginalDate) and passes state.now when given no argument.
DateConstructSkewed(layers, args, stateNow) ==
  IF layers = 0 THEN NativeDate(args)
  ELSE IF Len(args) > 0 THEN args[1] + layers
  ELSE stateNow
RECURSIVE DateConstruct(_, _, _)
DateConstruct(layers, args, stateNow) ==
  IF layers = 0 THEN NativeDate(args)
  ELSE IF Len(args) > 0 THEN DateConstruct(layers - 1, args, stateNow)
  ELSE DateConstruct(layers - 1, <<stateNow>>, stateNow)

\* Date.now() after `layers` calls.
DateNowAt(layers, stateNow) == IF layers = 0 THEN "host clock" ELSE stateNow

\* Date.parse(str) after `layers` calls: OriginalDate.parse bound to OriginalDate.
RECURSIVE DateParse(_, _)
DateParse(layers, str) ==
  IF layers = 0 THEN NativeParse(str) ELSE DateParse(layers - 1, str)

\* Date.UTC(1970, 0, day) after `layers` calls: OriginalDate.UTC bound to
\* OriginalDate.
Days == {1, 2}
NativeUTC(day) == (day - 1) * 86400000
RECURSIVE DateUTC(_, _)
DateUTC(layers, day) ==
  IF layers = 0 THEN NativeUTC(day) ELSE DateUTC(layers - 1, day)

\* global.Date.now() and the no-argument Date read state.now.
DateNow == DateNowAt(overrides, now)

\* Workflow code runs new Date(...args).
readDate(args) ==
  /\ CodeRuns /\ Op /\ UNCHANGED <<globals, hookEvents>>
  /\ ev' = [op |-> "Date", args |-> args, value |-> DateConstruct(overrides, args, now),
            now |-> DateNow]
  /\ UNCHANGED <<isolate, position, flags, observed, host>>

\* Workflow code runs Date.parse(str).
dateParse(str) ==
  /\ CodeRuns /\ Op /\ UNCHANGED <<globals, hookEvents>>
  /\ ev' = [op |-> "Date.parse", str |-> str, value |-> DateParse(overrides, str)]
  /\ UNCHANGED <<isolate, position, flags, observed, host>>

\* overrideGlobals(): the stubs are assigned anew, Date wraps the current Date.
overrideGlobals ==
  /\ mode = "idle"
  /\ overrides < MaxOverrides
  /\ overrides' = overrides + 1
  /\ ev' = [op |-> "overrideGlobals"]
  /\ UNCHANGED <<isolate, position, flags, observed, nOps, random, drawn, logger,
                 handover, hookEvents, host>>

\* ----------------------------------------------- overrideGlobals: timers
\* global.setTimeout and global.clearTimeout after `calls` calls of
\* overrideGlobals: each call assigns the same functions anew.
TimerGlobals(calls) == IF calls > 0 THEN "stub" ELSE "engine"

\* The value of state.nextSeqs.timer after setTimeout / clearTimeout.
TimerSeqAfterSet(n) == n + 1
TimerSeqRewound(n) == n - 1
TimerSeqAfterClear(n) == n + 1

\* global.setTimeout(cb, ms, ...args)
setTimeout ==
  /\ CodeRuns /\ Op /\ UNCHANGED <<globals, hookEvents>>
  /\ TimerGlobals(overrides) = "stub"
  /\ LET seq == nextSeqs.timer IN
       /\ nextSeqs' = [nextSeqs EXCEPT !.timer = TimerSeqAfterSet(@)]
       /\ completions' = [completions EXCEPT !.timer = @ \cup {seq}]
       /\ allocated' = [allocated EXCEPT !.timer = Append(@, seq)]
       /\ pushCommand(Command("startTimer", seq))
       /\ ev' = [op |-> "setTimeout", kind |-> "timer", seq |-> seq]
  /\ UNCHANGED <<info, require, now, completed, blockedConditions, pendingExternalCalls,
                 dependencies, interceptors, workflow>>
  /\ UNCHANGED <<position, flags, promises, settled, callbacks, flushed, nJobs, host>>

\* What clearTimeout leaves of state.completions.timer.
TimersAllCleared(timers, handle) == {}
TimersKept(timers, handle) == timers
TimersAfterClear(timers, handle) == timers \ {handle}

\* global.clearTimeout(handle)
clearTimeout(handle) ==
  /\ CodeRuns /\ Op /\ UNCHANGED <<globals, hookEvents>>
  /\ TimerGlobals(overrides) = "stub"
  /\ nextSeqs' = [nextSeqs EXCEPT !.timer = TimerSeqAfterClear(@)]
  /\ completions' = [completions EXCEPT !.timer = TimersAfterClear(@, handle)]
  /\ pushCommand(Command("cancelTimer", handle))
  /\ ev' = [op |-> "clearTimeout", kind |-> "timer", seq |-> handle,
            registered |-> handle \in completions.timer]
  /\ UNCHANGED <<info, require, now, completed, blockedConditions, pendingExternalCalls,
                 dependencies, interceptors, workflow>>
  /\ UNCHANGED <<position, flags, promises, settled, allocated, callbacks, flushed, nJobs, host>>

\* ------------------------------------------------------- inject and stubs
\* state.getAndResetPendingExternalCalls(): the list is returned and replaced
\* by an empty one.
GetAndKeep(pending) == [calls |-> pending, left |-> pending]
GetAndReset(pending) == [calls |-> pending, left |-> <<>>]

\* The calls handed out so far, after one more list left the isolate.
Handed(calls) == [handover EXCEPT !.handed = @ \o calls]

\* inject(ifaceName, fnName, dependency, applyMode, transferOptions)
inject(name, applyMode) ==
  /\ UNCHANGED <<nOps, globals, hookEvents>>
  /\ mode = "idle"
  /\ dependencies' = [dependencies EXCEPT ![name] = applyMode]
  /\ ev' = [op |-> "inject"]
  /\ UNCHANGED <<info, require, now, completed, commands, nextSeqs, completions,
                 blockedConditions, pendingExternalCalls, interceptors, workflow>>
  /\ UNCHANGED <<position, flags, observed>>

\* The entry an ASYNC stub appends to state.pendingExternalCalls.
AsyncCall(name, args, seq) ==
  [ifaceName |-> name[1], fnName |-> name[2], args |-> args, seq |-> <<seq>>]
\* The entry an ASYNC_IGNORED stub appends: it carries no seq.
IgnoredCall(name, args) ==
  [ifaceName |-> name[1], fnName |-> name[2], args |-> args, seq |-> <<>>]

\* The value of state.nextSeqs.dependency after an ASYNC stub took one.
DependencySeqAfterCall(n) == n + 1

\* state.dependencies[ifaceName][fnName](...args) of an ASYNC injection
callAsync(name, args) ==
  /\ CodeRuns /\ Op /\ UNCHANGED <<engine, hookEvents>>
  /\ dependencies[name] = "ASYNC"
  /\ LET seq == nextSeqs.dependency IN
       /\ handover' = [handover EXCEPT !.enqueued = Append(@, AsyncCall(name, args, seq))]
       /\ nextSeqs' = [nextSeqs EXCEPT !.dependency = DependencySeqAfterCall(@)]
       /\ allocated' = [allocated EXCEPT !.dependency = Append(@, seq)]
       /\ completions' = [completions EXCEPT !.dependency = @ \cup {seq}]
       /\ pendingExternalCalls' = Append(pendingExternalCalls, AsyncCall(name, args, seq))
       /\ promises' = (seq :> [status |-> "pending", value |-> "undefined", by |-> <<>>]) @@ promises
       /\ ev' = [op |-> "callAsync", kind |-> "dependency", seq |-> seq]
  /\ UNCHANGED <<info, require, now, completed, commands, blockedConditions,
                 dependencies, interceptors, workflow>>
  /\ UNCHANGED <<position, flags, settled, callbacks, pushed, flushed, nJobs, host>>

\* What the ASYNC_IGNORED stub returns to the workflow code: the arrow function's
\* body is the push expression, whose value is the list's new length.
\* <<>> stands for undefined.
IgnoredStubReturns(newLength) == <<newLength>>

\* state.dependencies[ifaceName][fnName](...args) of an ASYNC_IGNORED injection
callAsyncIgnored(name, args) ==
  /\ CodeRuns /\ Op /\ UNCHANGED <<engine, hookEvents>>
  /\ dependencies[name] = "ASYNC_IGNORED"
  /\ handover' = [handover EXCEPT !.enqueued = Append(@, IgnoredCall(name, args))]
  /\ pendingExternalCalls' = Append(pendingExternalCalls, IgnoredCall(name, args))
  /\ ev' = [op |-> "callAsyncIgnored", name |-> name, args |-> args,
            returned |-> IgnoredStubReturns(Len(pendingExternalCalls) + 1)]
  /\ UNCHANGED <<info, require, now, completed, commands, nextSeqs, completions,
                 blockedConditions, dependencies, interceptors, workflow>>
  /\ UNCHANGED <<position, flags, observed, host>>

\* state.dependencies[ifaceName][fnName](...args) of a SYNC* injection: the
\* host reference is applied at once, nothing is buffered in the isolate.
callSync(name, args) ==
  /\ CodeRuns /\ Op /\ UNCHANGED <<globals, hookEvents>>
  /\ dependencies[name] = "SYNC_IGNORED"
  /\ ev' = [op |-> "callSync"]
  /\ UNCHANGED <<isolate, position, flags, observed, host>>

\* -------------------------------------------- workflow code (internals API)
\* condition(fn): block on a predicate of the workflow's variables.
condition(f) ==
  /\ CodeRuns /\ Op /\ UNCHANGED <<globals, hookEvents>>
  /\ nextSeqs' = [nextSeqs EXCEPT !.condition = @ + 1]
  /\ allocated' = [allocated EXCEPT !.condition = Append(@, nextSeqs.condition)]
  /\ blockedConditions' = Append(blockedConditions, [seq |-> nextSeqs.condition, fn |-> f])
  /\ ev' = [op |-> "condition", kind |-> "condition", seq |-> nextSeqs.condition]
  /\ UNCHANGED <<info, require, now, completed, commands, completions,
                 pendingExternalCalls, dependencies, interceptors, workflow>>
  /\ UNCHANGED <<position, flags, promises, settled, callbacks, pushed, flushed, nJobs, host>>

\* Workflow code assigns one of its variables.
setFlag(f) ==
  /\ CodeRuns /\ Op /\ UNCHANGED <<globals, hookEvents>>
  /\ f \notin flags
  /\ flags' = flags \cup {f}
  /\ ev' = [op |-> "setFlag", flag |-> f]
  /\ UNCHANGED <<isolate, position, observed, host>>

\* The jobs of the activate call in progress whose code may be the one running:
\* the job whose handler is being called, or, once jobs.map has returned, any job
\* whose handler started workflow code (0: code suspended before this call).
Completers ==
  IF Dispatching THEN {act.index}
  ELSE IF mode = "activate" THEN act.coders \cup {0}
  ELSE {0}

\* completeWorkflow: the workflow function returned.
completeWorkflow ==
  /\ CodeRuns /\ Op /\ UNCHANGED <<globals, hookEvents>>
  /\ ~completed
  /\ pushCommand(Command("completeWorkflowExecution", 0))
  /\ completed' = TRUE
  /\ ev' = [op |-> "completeWorkflow"]
  /\ \E by \in Completers :
       act' = IF mode = "activate"
                THEN [act EXCEPT !.by = by, !.bySync = Dispatching]
                ELSE act
  /\ UNCHANGED <<info, require, now, nextSeqs, completions, blockedConditions,
                 pendingExternalCalls, dependencies, interceptors, workflow>>
  /\ UNCHANGED <<mode, runnable, flags, promises, settled, allocated, callbacks, flushed,
                 nJobs, host>>

\* handleWorkflowFailure(error): record the terminal command, which carries the
\* failure, and mark the run completed.
handleWorkflowFailure(failure) ==
  /\ pushCommand([type |-> "failWorkflowExecution", seq |-> 0, failure |-> failure])
  /\ completed' = TRUE

\* -------------------------------------- overrideGlobals: weak structures
WeakKinds == {"WeakMap", "WeakSet", "WeakRef"}

\* global[kind] is the throwing stub: overrideGlobals installed it, or, for
\* WeakRef, initRuntime installed it again.
NeverStubbed(kind, calls, initialised) == FALSE
Stubbed(kind, calls, initialised) == calls > 0 \/ (kind = "WeakRef" /\ initialised)

\* The error the stub throws.
DeterminismViolation(kind) ==
  [name |-> "DeterminismViolationError", message |-> kind]

\* Workflow code runs new WeakMap(), new WeakSet() or new WeakRef() and does not
\* catch what it raises: the stub's error fails the workflow.
constructWeak(kind) ==
  /\ CodeRuns /\ Op /\ UNCHANGED <<globals, hookEvents>>
  /\ IF Stubbed(kind, overrides, info.set)
       THEN /\ handleWorkflowFailure(DeterminismViolation(kind))
            /\ ev' = [op |-> "constructWeak", kind |-> kind,
                      error |-> <<DeterminismViolation(kind)>>]
       ELSE /\ ev' = [op |-> "constructWeak", kind |-> kind, error |-> <<>>]
            /\ UNCHANGED <<completed, commands, pushed>>
  /\ UNCHANGED <<info, require, now, nextSeqs, completions, blockedConditions,
                 pendingExternalCalls, dependencies, interceptors, workflow>>
  /\ UNCHANGED <<position, flags, promises, settled, allocated, callbacks, flushed,
                 nJobs, host>>

\* ------------------------------------------------------------- lifecycle
\* setRequireFunc(fn)
setRequireFunc ==
  /\ UNCHANGED <<nOps, globals, hookEvents>>
  /\ mode = "idle"
  /\ ~require
  /\ require' = TRUE
  /\ ev' = [op |-> "setRequireFunc"]
  /\ UNCHANGED <<info, now, completed, commands, nextSeqs, completions, blockedConditions,
                 pendingExternalCalls, dependencies, interceptors, workflow>>
  /\ UNCHANGED <<position, flags, observed, host>>

\* The stack of an error: its lines. The failure of a workflow lookup keeps the
\* first line only, and none when the error has no stack.
Stacks == {<<>>, <<"TypeError: x is not a function", "at initRuntime">>}
WholeStack(stack) == stack
FirstLine(stack) == IF stack = <<>> THEN <<>> ELSE <<Head(stack)>>

\* ApplicationFailure.nonRetryable(errorMessage(err), 'ReferenceError') with its
\* stack cut to one line.
LookupFailure(stack) ==
  [name |-> "ApplicationFailure", type |-> "ReferenceError", nonRetryable |-> TRUE,
   stack |-> FirstLine(stack)]

\* initRuntime(info, interceptorModules, randomnessSeed, now, isolateExtension);
\* found: req(undefined)[info.workflowType] is a function; stack: the stack of
\* the failure made when it is not. An isolate whose initRuntime threw is not
\* used any further (mode "dead").
initRuntime(modules, randomnessSeed, initialNow, found, stack) ==
  /\ UNCHANGED <<nOps, overrides, drawn, logger, handover, hookEvents>>
  /\ mode = "idle"
  /\ ~info.set
  /\ info' = [set |-> TRUE, isReplaying |-> FALSE]
  /\ now' = initialNow
  /\ random' = alea(randomnessSeed)
  /\ IF ~require
       THEN /\ ev' = [op |-> "initRuntime", error |-> "IllegalStateError",
                      lookup |-> "none"]
            /\ mode' = "dead"
            /\ UNCHANGED <<interceptors, workflow, completed, commands, pushed>>
       ELSE /\ interceptors' = interceptors \o modules
            /\ IF found
                 THEN /\ workflow' = TRUE
                      /\ UNCHANGED <<completed, commands, pushed>>
                 ELSE /\ handleWorkflowFailure(LookupFailure(stack))
                      /\ UNCHANGED workflow
            /\ ev' = [op |-> "initRuntime", error |-> "none",
                      lookup |-> IF found THEN "function" ELSE "failed"]
            /\ UNCHANGED mode
  /\ UNCHANGED <<require, nextSeqs, completions, blockedConditions, pendingExternalCalls,
                 dependencies>>
  /\ UNCHANGED <<act, runnable, flags, promises, settled, allocated, callbacks, flushed,
                 nJobs, host>>

\* ------------------------------------------------- tryUnblockConditions
\* One for-of pass over state.blockedConditions with the workflow's variables
\* as they are: the entries left, and the seqs of those resolved and deleted.
UnblockPassHeadOnly(conds, fl) ==
  IF conds # <<>> /\ Head(conds).fn \in fl
    THEN [left |-> Tail(conds), resolved |-> {Head(conds).seq}]
    ELSE [left |-> conds, resolved |-> {}]
RECURSIVE UnblockPass(_, _)
UnblockPass(conds, fl) ==
  IF conds = <<>>
    THEN [left |-> <<>>, resolved |-> {}]
    ELSE LET rest == UnblockPass(Tail(conds), fl) IN
           IF Head(conds).fn \in fl
             THEN [left |-> rest.left, resolved |-> rest.resolved \cup {Head(conds).seq}]
             ELSE [left |-> <<Head(conds)>> \o rest.left, resolved |-> rest.resolved]

\* The for (;;) loop: passes are repeated until one resolves nothing.
RECURSIVE UnblockLoop(_, _, _)
UnblockLoop(conds, fl, resolved) ==
  LET pass == UnblockPass(conds, fl) IN
    IF pass.resolved = {}
      THEN [left |-> conds, resolved |-> resolved, numUnblocked |-> Cardinality(resolved)]
      ELSE UnblockLoop(pass.left, fl, resolved \cup pass.resolved)

tryUnblockConditions == UnblockLoop(blockedConditions, flags, {})

RECURSIVE CalledAll(_, _, _)
CalledAll(st, kind, qs) ==
  IF qs = {} THEN st
  ELSE LET q == CHOOSE x \in qs : TRUE IN CalledAll(Called(st, kind, q), kind, qs \ {q})

\* ------------------------------------------------------ interceptors
\* The internals interceptors a module's factory returns: "rewriter" drops the
\* cancelTimer commands of a conclusion, "observer" logs each hook it is called
\* for (activate with batchIndex, concludeActivation with the number of
\* commands) and calls next.
ModuleLists == {<<>>, <<"rewriter">>}
HostModuleLists == ModuleLists \cup {<<"observer">>}

\* The events the observers of the chain log when the chain of `hook` runs.
NoHookEvents(list, hook, arg) == <<>>
HookEvents(list, hook, arg) ==
  LET observers == SelectSeq(list, LAMBDA m : m = "observer") IN
    [i \in 1..Len(observers) |-> [hook |-> hook, arg |-> arg]]

\* --------------------------------------------------------------- activate
\* state.now after the batchIndex === 0 block of activate.
NowFromAnyBatch(current, activation, batchIndex) ==
  IF activation.timestamp # <<>> THEN tsToMs(activation.timestamp) ELSE current
NowAfterActivate(current, activation, batchIndex) ==
  IF batchIndex = 0 /\ activation.timestamp # <<>>
    THEN tsToMs(activation.timestamp)
    ELSE current

\* The post-completion test of the job dispatcher.
DropsEveryJob(isCompleted, variant) == isCompleted
DropsNoJob(isCompleted, variant) == FALSE
DropsJob(isCompleted, variant) == isCompleted /\ variant # "queryWorkflow"

\* What becomes of one job of jobs.map: a TypeError for a malformed job, a
\* silent return, or the call of state.activator[job.variant] (whose fireTimer
\* handler consumes the timer's completion and fails when there is none).
JobOutcome(job, isCompleted, timers) ==
  IF job.variant = "undefined" THEN "TypeError"
  ELSE IF ~job.set THEN "TypeError"
  ELSE IF DropsJob(isCompleted, job.variant) THEN "dropped"
  ELSE IF job.variant = "fireTimer" /\ job.seq \notin timers THEN "IllegalStateError"
  ELSE "invoked"

\* The outcomes that make the job's promise, and so Promise.all, reject.
NoJobErrors == {}
JobErrors == {"TypeError", "IllegalStateError"}
RunsCode(job, out) == out = "invoked" /\ job.variant \notin {"queryWorkflow", "notifyHasPatch"}

\* The first test of the batchIndex === 0 block: the workflow has not been
\* initialized.
NeverUninitialized(batchIndex, infoSet) == FALSE
Uninitialized(batchIndex, infoSet) == batchIndex = 0 /\ ~infoSet

\* activate(encodedActivation, batchIndex), up to the start of jobs.map
activate(activation, batchIndex) ==
  /\ UNCHANGED <<nOps, globals>>
  /\ mode = "idle"
  /\ hookEvents' = hookEvents \o HookEvents(interceptors, "activate", batchIndex)
  /\ IF Uninitialized(batchIndex, info.set)
       THEN /\ ev' = [op |-> "activate", batchIndex |-> batchIndex,
                      timestamp |-> activation.timestamp, error |-> "IllegalStateError",
                      jobs |-> Len(activation.jobs)]
            /\ UNCHANGED <<info, now, position>>
       ELSE /\ now' = NowAfterActivate(now, activation, batchIndex)
            /\ info' = IF batchIndex = 0
                         THEN [info EXCEPT !.isReplaying = activation.isReplaying]
                         ELSE info
            /\ mode' = "activate"
            /\ act' = [NoAct EXCEPT !.jobs = activation.jobs,
                                    !.timestamp = activation.timestamp,
                                    !.batchIndex = batchIndex]
            /\ runnable' = FALSE
            /\ ev' = [op |-> "activate", batchIndex |-> batchIndex,
                      timestamp |-> activation.timestamp, error |-> "none",
                      jobs |-> Len(activation.jobs)]
  /\ UNCHANGED <<require, completed, commands, nextSeqs, completions, blockedConditions,
                 pendingExternalCalls, dependencies, interceptors, workflow>>
  /\ UNCHANGED <<flags, promises, settled, allocated, callbacks, pushed, flushed>>

\* One job of jobs.map, up to its await of the handler.
dispatchJob ==
  /\ UNCHANGED <<nOps, globals, hookEvents>>
  /\ Dispatching
  /\ LET job == Head(act.jobs)
         out == JobOutcome(job, completed, completions.timer)
     IN
       /\ act' = [act EXCEPT !.jobs = Tail(@),
                             !.index = @ + 1,
                             !.handlers = IF out = "invoked" /\ job.variant # "queryWorkflow"
                                            THEN @ \cup {act.index + 1} ELSE @,
                             !.coders = IF RunsCode(job, out)
                                          THEN @ \cup {act.index + 1} ELSE @,
                             !.sync = RunsCode(job, out),
                             !.conts = IF out = "invoked" THEN @ + 1 ELSE @,
                             !.error = IF @ = <<>> /\ out \in JobErrors THEN <<out>> ELSE @]
       /\ runnable' = (runnable \/ RunsCode(job, out))
       /\ IF out = "invoked" /\ job.variant = "fireTimer"
            THEN /\ completions' = Consumed(completions, "timer", job.seq)
                 /\ settled' = Called(settled, "timer", job.seq)
                 /\ callbacks' = IF job.seq \in DOMAIN callbacks
                                   THEN [callbacks EXCEPT ![job.seq] = @ + 1]
                                   ELSE (job.seq :> 1) @@ callbacks
            ELSE UNCHANGED <<completions, settled, callbacks>>
       /\ IF out = "invoked" /\ job.variant = "queryWorkflow"
            THEN pushCommand(Command("respondToQuery", 0))
            ELSE UNCHANGED <<commands, pushed>>
       /\ ev' = [op |-> "dispatch", job |-> job, outcome |-> out, completed |-> completed]
  /\ UNCHANGED <<info, require, now, completed, nextSeqs, blockedConditions,
                 pendingExternalCalls, dependencies, interceptors, workflow>>
  /\ UNCHANGED <<mode, flags, promises, allocated, flushed, nJobs, host>>

\* The rest of a job after its handler's promise resolved: tryUnblockConditions().
continueJob ==
  /\ UNCHANGED <<nOps, globals, hookEvents>>
  /\ mode = "activate" /\ ~Dispatching
  /\ act.conts > 0
  /\ LET r == tryUnblockConditions IN
       /\ act' = [act EXCEPT !.conts = @ - 1, !.sync = FALSE]
       /\ blockedConditions' = r.left
       /\ settled' = CalledAll(settled, "condition", r.resolved)
       /\ runnable' = (runnable \/ r.numUnblocked > 0)
       /\ ev' = [op |-> "continueJob", numUnblocked |-> r.numUnblocked]
  /\ UNCHANGED <<info, require, now, completed, commands, nextSeqs, completions,
                 pendingExternalCalls, dependencies, interceptors, workflow>>
  /\ UNCHANGED <<mode, flags, promises, allocated, callbacks, pushed, flushed,
                 nJobs, host>>

\* The end of activate: Promise.all settled and the microtasks have run. A job
\* that threw makes the call reject; otherwise the pending calls are drained.
activateReturn ==
  /\ UNCHANGED <<nOps, engine, hookEvents>>
  /\ mode = "activate" /\ ~Dispatching
  /\ act.conts = 0
  /\ mode' = "idle"
  /\ act' = NoAct
  /\ runnable' = FALSE
  /\ IF act.error # <<>>
       THEN /\ ev' = [op |-> "activateReturn", error |-> act.error[1]]
            /\ UNCHANGED <<pendingExternalCalls, handover>>
       ELSE /\ ev' = [op |-> "activateReturn", error |-> "none",
                      externalCalls |-> GetAndReset(pendingExternalCalls).calls,
                      numBlockedConditions |-> Len(blockedConditions)]
            /\ pendingExternalCalls' = GetAndReset(pendingExternalCalls).left
            /\ handover' = Handed(GetAndReset(pendingExternalCalls).calls)
  /\ UNCHANGED <<info, require, now, completed, commands, nextSeqs, completions,
                 blockedConditions, dependencies, interceptors, workflow>>
  /\ UNCHANGED <<flags, observed>>

\* The microtasks a synchronous call queued have run.
microtasksDone ==
  /\ UNCHANGED <<nOps, globals, hookEvents>>
  /\ mode = "micro"
  /\ mode' = "idle"
  /\ runnable' = FALSE
  /\ ev' = [op |-> "microtasksDone"]
  /\ UNCHANGED <<isolate, act, flags, observed, host>>

\* ----------------------------------------------------- concludeActivation
\* One internals interceptor's concludeActivation hook around next.
composeLosingFirst(list, cmds) == IF cmds = <<>> THEN cmds ELSE Tail(cmds)
RECURSIVE composeConclude(_, _)
composeConclude(list, cmds) ==
  IF list = <<>> THEN cmds
  ELSE IF Head(list) = "rewriter"
    THEN composeConclude(Tail(list), SelectSeq(cmds, LAMBDA c : c.type # "cancelTimer"))
    ELSE composeConclude(Tail(list), cmds)

\* The test on the drained list.
ConclusionAlwaysComplete(pending) == "complete"
ConclusionType(pending) == IF Len(pending) > 0 THEN "pending" ELSE "complete"

\* state.commands after a 'complete' conclusion.
CommandsKept(cmds) == cmds
CommandsAfterComplete(cmds) == <<>>

\* state.commands after a conclusion of either type.
CommandsAlwaysCleared(type, cmds) == <<>>
CommandsAfterConclusion(type, cmds) ==
  IF type = "pending" THEN cmds ELSE CommandsAfterComplete(cmds)

\* concludeActivation()
concludeActivation ==
  /\ UNCHANGED <<nOps, engine>>
  /\ mode = "idle"
  /\ pendingExternalCalls' = GetAndReset(pendingExternalCalls).left
  /\ handover' = Handed(GetAndReset(pendingExternalCalls).calls)
  /\ commands' = CommandsAfterConclusion(ConclusionType(pendingExternalCalls), commands)
  /\ IF ConclusionType(pendingExternalCalls) = "pending"
       THEN /\ ev' = [op |-> "concludeActivation", type |-> "pending",
                      drained |-> pendingExternalCalls,
                      pendingExternalCalls |-> GetAndReset(pendingExternalCalls).calls,
                      numBlockedConditions |-> Len(blockedConditions)]
            /\ UNCHANGED <<flushed, hookEvents>>
       ELSE LET out == composeConclude(interceptors, commands) IN
            /\ ev' = [op |-> "concludeActivation", type |-> "complete",
                      drained |-> pendingExternalCalls,
                      encoded |-> [successful |-> out],
                      hooks |-> hookEvents \o
                        HookEvents(interceptors, "concludeActivation", Len(commands))]
            /\ hookEvents' = <<>>
            /\ flushed' = flushed \o out
  /\ UNCHANGED <<info, require, now, completed, nextSeqs, completions, blockedConditions,
                 dependencies, interceptors, workflow>>
  /\ UNCHANGED <<position, flags, promises, settled, allocated, callbacks, pushed,
                 nJobs>>

\* getAndResetPendingExternalCalls()
getAndResetPendingExternalCalls ==
  /\ UNCHANGED <<nOps, engine, hookEvents>>
  /\ mode = "idle"
  /\ pendingExternalCalls' = GetAndReset(pendingExternalCalls).left
  /\ handover' = Handed(GetAndReset(pendingExternalCalls).calls)
  /\ ev' = [op |-> "getAndResetPendingExternalCalls",
            calls |-> GetAndReset(pendingExternalCalls).calls]
  /\ UNCHANGED <<info, require, now, completed, commands, nextSeqs, completions,
                 blockedConditions, dependencies, interceptors, workflow>>
  /\ UNCHANGED <<position, flags, observed>>

\* --------------------------------------------- resolveExternalDependencies
\* The promise after completion.reject(error) or completion.resolve(result).
Settle(promise, entry) ==
  IF promise.status # "pending" THEN promise
  ELSE IF Truthy(entry.error)
    THEN [status |-> "rejected", value |-> entry.error, by |-> <<entry>>]
    ELSE [status |-> "resolved", value |-> entry.result, by |-> <<entry>>]

\* The body of the for loop for one entry whose completion is registered.
ResolveEntryKeeping(st, e) ==
  [st EXCEPT !.proms = [@ EXCEPT ![e.seq] = Settle(@, e)],
             !.calls = Called(@, "dependency", e.seq),
             !.done = @ + 1]
ResolveEntry(st, e) ==
  [st EXCEPT !.comps = Consumed(@, "dependency", e.seq),
             !.proms = [@ EXCEPT ![e.seq] = Settle(@, e)],
             !.calls = Called(@, "dependency", e.seq),
             !.done = @ + 1]

\* The for loop; consumeCompletion throws at the first entry without completion.
RECURSIVE ResolveAllSkipping(_, _)
ResolveAllSkipping(results, st) ==
  IF results = <<>> THEN st
  ELSE IF Head(results).seq \notin st.comps["dependency"]
    THEN ResolveAllSkipping(Tail(results), [st EXCEPT !.error = "IllegalStateError"])
    ELSE ResolveAllSkipping(Tail(results), ResolveEntry(st, Head(results)))
RECURSIVE ResolveAll(_, _)
ResolveAll(results, st) ==
  IF results = <<>> THEN st
  ELSE IF Head(results).seq \notin st.comps["dependency"]
    THEN [st EXCEPT !.error = "IllegalStateError"]
    ELSE ResolveAll(Tail(results), ResolveEntry(st, Head(results)))

\* resolveExternalDependencies(results)
resolveExternalDependencies(results) ==
  /\ UNCHANGED <<nOps, engine, hookEvents>>
  /\ mode = "idle"
  /\ handover' = [handover EXCEPT !.named =
                     @ \cup {results[i].seq : i \in
                               {j \in 1..Len(results) : results[j].seq < nextSeqs.dependency}}]
  /\ LET r == ResolveAll(results, [comps |-> completions, proms |-> promises,
                                   calls |-> settled, done |-> 0, error |-> "none"])
     IN
       /\ completions' = r.comps
       /\ promises' = r.proms
       /\ settled' = r.calls
       /\ mode' = IF r.done > 0 THEN "micro" ELSE "idle"
       /\ runnable' = (r.done > 0)
       /\ ev' = [op |-> "resolveExternalDependencies", error |-> r.error,
                 entries |-> Len(results), done |-> r.done,
                 failed |-> IF r.error = "none" THEN <<>> ELSE <<results[r.done + 1].seq>>]
  /\ UNCHANGED <<info, require, now, completed, commands, nextSeqs, blockedConditions,
                 pendingExternalCalls, dependencies, interceptors, workflow>>
  /\ UNCHANGED <<act, flags, allocated, callbacks, pushed, flushed, nJobs>>

\* tryUnblockConditions(), called by the worker
callTryUnblockConditions ==
  /\ UNCHANGED <<nOps, globals, hookEvents>>
  /\ mode = "idle"
  /\ LET r == tryUnblockConditions IN
       /\ blockedConditions' = r.left
       /\ settled' = CalledAll(settled, "condition", r.resolved)
       /\ mode' = IF r.numUnblocked > 0 THEN "micro" ELSE "idle"
       /\ runnable' = (r.numUnblocked > 0)
       /\ ev' = [op |-> "tryUnblockConditions", numUnblocked |-> r.numUnblocked,
                 before |-> blockedConditions]
  /\ UNCHANGED <<info, require, now, completed, commands, nextSeqs, completions,
                 pendingExternalCalls, dependencies, interceptors, workflow>>
  /\ UNCHANGED <<act, flags, promises, allocated, callbacks, pushed, flushed, nJobs>>

\* ------------------------------------------------------- DefaultLogger
MaxLogs == 2

\* const severities: LogLevel[]
severitiesReversed == <<"ERROR", "WARN", "INFO", "DEBUG", "TRACE">>
severities == <<"TRACE", "DEBUG", "INFO", "WARN", "ERROR">>
LogLevel == {"TRACE", "DEBUG", "INFO", "WARN", "ERROR"}

\* Array.prototype.indexOf: the first index (from 0) that holds x, or -1.
indexOf(arr, x) ==
  IF \E i \in 1..Len(arr) : arr[i] = x
    THEN (CHOOSE i \in 1..Len(arr) : arr[i] = x /\ \A j \in 1..(i - 1) : arr[j] # x) - 1
    ELSE -1

\* The keys of a LogMetadata: the symbol LogTimestamp, another symbol and a
\* string; Object.keys lists the string keys only.
LogTimestamp == "Symbol(log_timestamp)"
MetaKeys == {LogTimestamp, "Symbol(other)", "attr"}
IsSymbol(k) == k \in {LogTimestamp, "Symbol(other)"}
ObjectKeys(obj) == {k \in DOMAIN obj : ~IsSymbol(k)}

\* The meta arguments (<<>> is undefined) and the messages.
LogTimes == {7}
Metas == {<<>>} \cup {<<m>> : m \in UNION {[K -> LogTimes] : K \in SUBSET MetaKeys}}
Messages == {"m"}

\* getTimeOfDay() of the core bridge, and its conversion to nanoseconds.
TimesOfDay == {<<1, 5>>}
timeOfDayToBigint(t) == t[1] * 1000000000 + t[2]

\* new DefaultLogger(level): the entries record what logFunction was given.
DefaultLogger(level) ==
  [level |-> level, severity |-> indexOf(severities, level), entries |-> <<>>, calls |-> 0]

\* const { [LogTimestamp]: timestampNanos, ...rest } = meta ?? {}
Rest(meta) ==
  IF meta = <<>> THEN <<>>
  ELSE [k \in DOMAIN meta[1] \ {LogTimestamp} |-> meta[1][k]]

\* The entry log builds for logFunction.
LogEntry(level, message, meta, timeOfDay) ==
  [level |-> level,
   message |-> message,
   meta |-> IF ObjectKeys(Rest(meta)) = {} THEN <<>> ELSE <<Rest(meta)>>,
   timestampNanos |-> IF meta # <<>> /\ LogTimestamp \in DOMAIN meta[1]
                        THEN meta[1][LogTimestamp]
                        ELSE timeOfDayToBigint(timeOfDay)]

\* DefaultLogger.log(level, message, meta), called as itself or by one of the
\* five level methods.
LogCall(method, level, message, meta) ==
  /\ logger.calls < MaxLogs
  /\ \E t \in TimesOfDay :
       logger' = [logger EXCEPT
                    !.calls = @ + 1,
                    !.entries = IF indexOf(severities, level) >= logger.severity
                                  THEN Append(@, LogEntry(level, message, meta, t))
                                  ELSE @]
  /\ ev' = [op |-> "log", method |-> method, level |-> level, message |-> message,
            meta |-> meta, before |-> Len(logger.entries)]
  /\ UNCHANGED <<isolate, position, flags, observed, nOps, overrides, random, drawn,
                 handover, hookEvents, host>>

log(level, message, meta) == LogCall("log", level, message, meta)
trace(message, meta) == LogCall("trace", "TRACE", message, meta)
debug(message, meta) == LogCall("debug", "DEBUG", message, meta)
logInfo(message, meta) == LogCall("info", "INFO", message, meta)
warn(message, meta) == LogCall("warn", "WARN", message, meta)
error(message, meta) == LogCall("error", "ERROR", message, meta)

\* ------------------------------------------------------------------- Init
\* The worker's logger is a DefaultLogger of the default level.
Init ==
  /\ logger = DefaultLogger("INFO")
  /\ handover = [enqueued |-> <<>>, handed |-> <<>>, named |-> {}]
  /\ info = [set |-> FALSE, isReplaying |-> FALSE]
  /\ require = FALSE
  /\ now = 0
  /\ completed = FALSE
  /\ commands = <<>>
  /\ nextSeqs = [timer |-> 0, dependency |-> 0, condition |-> 0]
  /\ completions = [timer |-> {}, dependency |-> {}]
  /\ blockedConditions = <<>>
  /\ pendingExternalCalls = <<>>
  /\ dependencies = [n \in DepNames |-> "none"]
  /\ interceptors = <<>>
  /\ workflow = FALSE
  /\ mode = "idle"
  /\ act = NoAct
  /\ runnable = FALSE
  /\ flags = {}
  /\ promises = <<>>
  /\ settled = [timer |-> <<>>, dependency |-> <<>>, condition |-> <<>>]
  /\ allocated = [timer |-> <<>>, dependency |-> <<>>, condition |-> <<>>]
  /\ callbacks = <<>>
  /\ pushed = <<>>
  /\ flushed = <<>>
  /\ nJobs = 0
  /\ nOps = 0
  /\ overrides = 1
  /\ random = NoRandom
  /\ drawn = <<>>
  /\ hookEvents = <<>>
  /\ ev = [op |-> "init"]
  /\ hostPc = "idle"
  /\ hostDeps = {}
  /\ hostAct = NoHostAct
  /\ hostCalls = <<>>

\* ------------------------------------- Spec: the interface called freely
ResultEntries ==
  {[seq |-> q, result |-> "ok", error |-> "undefined"] : q \in 0..(MaxSeq - 1)}
    \cup {[seq |-> q, result |-> "undefined", error |-> e] : q \in 0..(MaxSeq - 1), e \in {"0", "boom"}}

\* Before initRuntime the only call tried is a first batch of one job at most; afterwards the
\* worker injects its dependencies and then calls freely, with MaxJobs jobs
\* in all.
CallActivate ==
  \E a \in Activations, b \in 0..1 :
    /\ nJobs + Len(a.jobs) <= MaxJobs
    /\ IF info.set THEN SetUp ELSE b = 0 /\ Len(a.jobs) <= 1
    /\ activate(a, b)
    /\ nJobs' = nJobs + Len(a.jobs)
    /\ UNCHANGED host

CallConcludeActivation == SetUp /\ concludeActivation /\ UNCHANGED host

CallGetAndReset ==
  /\ SetUp
  /\ pendingExternalCalls # <<>>
  /\ getAndResetPendingExternalCalls
  /\ UNCHANGED host

CallResolve ==
  \E rs \in SeqsUpTo(ResultEntries, MaxList) \ {<<>>} :
    SetUp /\ resolveExternalDependencies(rs) /\ UNCHANGED host

CallTryUnblock ==
  /\ SetUp
  /\ blockedConditions # <<>>
  /\ callTryUnblockConditions
  /\ UNCHANGED host

CallInject ==
  /\ info.set
  /\ Injected < Len(Injections)
  /\ inject(Injections[Injected + 1][1], Injections[Injected + 1][2])
  /\ UNCHANGED host

CallInitRuntime ==
  \E ms \in ModuleLists, t \in InitialNows, found \in BOOLEAN, stack \in Stacks :
    /\ ms # <<>> => found
    /\ found => stack = <<>>
    /\ initRuntime(ms, 1, t, found, stack)

WorkflowCode ==
  \/ setTimeout
  \/ \E h \in 0..(MaxSeq - 1) : clearTimeout(h)
  \/ \E n \in DepNames, a \in ArgValues : callAsync(n, a)
  \/ \E n \in DepNames, a \in ArgValues : callAsyncIgnored(n, a)
  \/ \E n \in DepNames, a \in ArgValues : callSync(n, a)
  \/ \E f \in Flags : condition(f)
  \/ \E f \in Flags : setFlag(f)
  \/ completeWorkflow

ReturnFromActivate == activateReturn /\ UNCHANGED host

Isolate ==
  \/ dispatchJob
  \/ continueJob
  \/ ReturnFromActivate
  \/ microtasksDone

Next ==
  \/ setRequireFunc
  \/ CallInitRuntime
  \/ CallInject
  \/ CallActivate
  \/ CallConcludeActivation
  \/ CallGetAndReset
  \/ CallResolve
  \/ CallTryUnblock
  \/ WorkflowCode
  \/ Isolate

Spec == Init /\ [][Next]_vars

\* ------------------------- HostSpec: the interface called by the Workflow
\* Workflow.create: initRuntime in a context whose require function is set.
WorkflowCreate ==
  \E ms \in HostModuleLists, t \in InitialNows, found \in BOOLEAN, stack \in Stacks :
    /\ require
    /\ ms # <<>> => found
    /\ found => stack = <<>>
    /\ initRuntime(ms, 1, t, found, stack)

\* Workflow.injectDependency(ifaceName, fnName, fn, applyMode)
injectDependency(name, applyMode) ==
  /\ hostDeps' = IF applyMode \in {"ASYNC", "ASYNC_IGNORED"} THEN hostDeps \cup {name} ELSE hostDeps
  /\ inject(name, applyMode)
  /\ UNCHANGED <<hostPc, hostAct, hostCalls>>

WorkflowInject ==
  /\ info.set /\ hostPc = "idle"
  /\ Injected < Len(Injections)
  /\ injectDependency(Injections[Injected + 1][1], Injections[Injected + 1][2])

\* The worker calls the isolate's inject through the public workflowModule
\* field: the stub is installed and Workflow.dependencies is left alone.
DirectInjections == {<<"metrics", "emit">>}
WorkflowModuleInject ==
  /\ info.set /\ hostPc = "idle"
  /\ Injected < Len(Injections)
  /\ Injections[Injected + 1][1] \in DirectInjections
  /\ inject(Injections[Injected + 1][1], Injections[Injected + 1][2])
  /\ UNCHANGED host

\* The jobs and activations the worker receives from the core.
HostJobs == Jobs \cup {Job(v, TRUE, 0) : v \in {"signalWorkflow", "notifyHasPatch"}}
HostActivations ==
  {[timestamp |-> <<>>, isReplaying |-> FALSE, jobs |-> js] :
     js \in {x \in SeqsUpTo(HostJobs, MaxList) : QueryOnly(x)}}
  \cup
  {[timestamp |-> t, isReplaying |-> TRUE, jobs |-> js] :
     t \in Timestamps \ {<<>>}, js \in SeqsUpTo(HostJobs, MaxList)}

\* What a job's field holds when the job is of another variant: null in a
\* decoded message (as the isolate's test of activation.timestamp expects),
\* undefined in a plain object that leaves the key out. The parameter of
\* Workflow.activate is of the interface type, which admits both.
UnsetFields == {"null", "undefined"}

\* job[field] of a job of the activation.
FieldOf(job, field, unset) ==
  IF job.variant = field /\ job.set THEN "object" ELSE unset

\* partition(arr, predicate): the elements that satisfy it, and the others;
\* hit[i] is the value of the predicate on arr[i].
RECURSIVE partition(_, _)
partition(arr, hit) ==
  IF arr = <<>> THEN << <<>>, <<>> >>
  ELSE LET rest == partition(Tail(arr), Tail(hit)) IN
         IF Head(hit)
           THEN << <<Head(arr)>> \o rest[1], rest[2] >>
           ELSE << rest[1], <<Head(arr)>> \o rest[2] >>

\* field !== undefined on each job of arr.
Defined(arr, field, unset) ==
  [i \in 1..Len(arr) |-> FieldOf(arr[i], field, unset) # "undefined"]

\* The job processing order: patches, signals, anything left but queries,
\* queries; the loop over the batches skips the empty ones.
Batches(jobs, unset) ==
  LET p1 == partition(jobs, Defined(jobs, "notifyHasPatch", unset))
      patches == p1[1]
      nonPatches == p1[2]
      p2 == partition(nonPatches, Defined(nonPatches, "signalWorkflow", unset))
      signals == p2[1]
      nonSignals == p2[2]
      p3 == partition(nonSignals, Defined(nonSignals, "queryWorkflow", unset))
      queries == p3[1]
      rest == p3[2]
  IN SelectSeq(<<patches, signals, rest, queries>>, LAMBDA b : b # <<>>)

\* Workflow.activate(activation), up to the loop over the batches
WorkflowActivate ==
  \E a \in HostActivations, unset \in UnsetFields :
    /\ hostPc = "idle" /\ SetUp
    /\ nJobs + Len(a.jobs) <= MaxJobs
    /\ nJobs' = nJobs + Len(a.jobs)
    /\ hostAct' = [NoHostAct EXCEPT !.activation = a, !.batches = Batches(a.jobs, unset)]
    /\ hostPc' = "batch"
    /\ ev' = [op |-> "Workflow.activate"]
    /\ UNCHANGED <<isolate, position, flags, promises, settled, allocated, callbacks,
                   pushed, flushed, nOps, globals, hookEvents, hostDeps, hostCalls>>

\* One turn of the loop over the batches: workflowModule.activate(arr, batchIndex++)
RunBatch ==
  /\ hostPc = "batch"
  /\ hostAct.batches # <<>>
  /\ activate([hostAct.activation EXCEPT !.jobs = Head(hostAct.batches)], hostAct.batchIndex)
  /\ hostAct' = [hostAct EXCEPT !.batches = Tail(@), !.batchIndex = @ + 1,
                                !.sent = Append(@, [jobs |-> Head(hostAct.batches),
                                                    batchIndex |-> hostAct.batchIndex])]
  /\ hostPc' = "inBatch"
  /\ UNCHANGED <<nJobs, hostDeps, hostCalls>>

\* The error a failed step of Workflow.activate throws into the catch block.
Thrown(name, step) == <<[error |-> name, from |-> step]>>

\* The activate call returns { externalCalls, numBlockedConditions } or throws.
BatchReturns ==
  /\ hostPc = "inBatch"
  /\ activateReturn
  /\ IF ev'.error # "none"
       THEN /\ hostPc' = "catch"
            /\ hostAct' = [hostAct EXCEPT !.caught = Thrown(ev'.error, "activate")]
            /\ UNCHANGED hostCalls
       ELSE /\ hostCalls' = ev'.externalCalls
            /\ hostAct' = [hostAct EXCEPT !.numBlocked = ev'.numBlockedConditions,
                                          !.loop = "batch"]
            /\ hostPc' = "process"
  /\ UNCHANGED hostDeps

\* What a dependency function called in the Node.js isolate returns or throws.
Outcomes ==
  {[result |-> "ok", error |-> "undefined"]}
    \cup {[result |-> "undefined", error |-> e] : e \in {"0", "boom"}}

\* The results of Promise.all(externalCalls.map(...)): each call's seq with
\* what its function returned or threw.
ResultsOf(calls, outs) ==
  [i \in 1..Len(calls) |-> [seq |-> calls[i].seq, result |-> outs[i].result, error |-> outs[i].error]]

\* results.filter((r) => r.seq !== undefined), as ExternalDependencyResult[]
NotIgnoredNorFailed(results) ==
  LET kept == SelectSeq(results, LAMBDA r : r.seq # <<>> /\ r.error = "undefined") IN
    [i \in 1..Len(kept) |-> [seq |-> kept[i].seq[1], result |-> kept[i].result, error |-> kept[i].error]]
NotIgnored(results) ==
  LET kept == SelectSeq(results, LAMBDA r : r.seq # <<>>) IN
    [i \in 1..Len(kept) |-> [seq |-> kept[i].seq[1], result |-> kept[i].result, error |-> kept[i].error]]

\* Workflow.processExternalCalls(externalCalls, sendResultsBack), followed in
\* the two loops by the test of numBlockedConditions. Every callback of the map
\* runs, so the functions found are called also when another lookup throws.
processExternalCalls(sendResultsBack, next) ==
  \E outs \in [1..Len(hostCalls) -> Outcomes] :
    LET results == ResultsOf(hostCalls, outs)
        invoked == SelectSeq(hostCalls, LAMBDA c : <<c.ifaceName, c.fnName>> \in hostDeps)
        registered == Len(invoked) = Len(hostCalls)
    IN
      /\ mode = "idle"
      /\ hostCalls' = <<>>
      /\ IF ~registered
           THEN /\ hostPc' = IF sendResultsBack THEN "catch" ELSE "thrown"
                /\ ev' = [op |-> "processExternalCalls", error |-> "TypeError",
                          calls |-> hostCalls, invoked |-> invoked, results |-> <<>>]
                /\ UNCHANGED <<isolate, position, promises, settled, nOps, globals,
                                            hookEvents>>
           ELSE IF sendResultsBack /\ NotIgnored(results) # <<>>
                  THEN /\ resolveExternalDependencies(NotIgnored(results))
                       /\ hostPc' = IF ev'.error # "none" THEN "catch" ELSE next
                  ELSE /\ hostPc' = next
                       /\ ev' = [op |-> "processExternalCalls", error |-> "none",
                                 calls |-> hostCalls, invoked |-> invoked,
                                 results |-> results]
                       /\ UNCHANGED <<isolate, position, promises, settled, nOps, globals,
                                            hookEvents>>
      /\ UNCHANGED <<flags, allocated, callbacks, pushed, flushed, nJobs, hostDeps>>

\* The external calls of a batch or of a pending conclusion are processed.
ProcessCalls ==
  /\ hostPc = "process"
  /\ processExternalCalls(TRUE, IF hostAct.numBlocked > 0 THEN "unblock" ELSE hostAct.loop)
  /\ hostAct' = [hostAct EXCEPT !.calls = hostCalls,
                                !.caught = IF ev'.error # "none"
                                             THEN Thrown(ev'.error, ev'.op) ELSE @]

\* Workflow.tryUnblockConditions: one turn of its loop.
WorkflowTryUnblock ==
  /\ hostPc = "unblock"
  /\ callTryUnblockConditions
  /\ hostPc' = IF ev'.numUnblocked = 0 THEN hostAct.loop ELSE "unblock"
  /\ UNCHANGED <<hostDeps, hostAct, hostCalls>>

\* One turn of the loop on concludeActivation: a pending conclusion hands its
\* calls to the host, a complete one is what Workflow.activate returns.
AfterConclusionAgain(type) == IF type = "pending" THEN "process" ELSE "conclude"
AfterConclusion(type) == IF type = "pending" THEN "process" ELSE "idle"
Conclude ==
  /\ hostPc = "conclude" \/ (hostPc = "batch" /\ hostAct.batches = <<>>)
  /\ concludeActivation
  /\ hostPc' = AfterConclusion(ev'.type)
  /\ IF ev'.type = "pending"
       THEN /\ hostCalls' = ev'.pendingExternalCalls
            /\ hostAct' = [hostAct EXCEPT !.numBlocked = ev'.numBlockedConditions,
                                          !.loop = "conclude"]
       ELSE /\ hostAct' = NoHostAct
            /\ UNCHANGED hostCalls
  /\ UNCHANGED hostDeps

\* catch (error): the pending external calls are fetched ...
Catch ==
  /\ hostPc = "catch"
  /\ getAndResetPendingExternalCalls
  /\ hostCalls' = ev'.calls
  /\ hostPc' = "flush"
  /\ UNCHANGED <<hostDeps, hostAct>>

\* ... and processed without sending results back; the error is thrown.
FlushSendingBack == TRUE
FlushSendsResultsBack == FALSE
Flush ==
  /\ hostPc = "flush"
  /\ processExternalCalls(FlushSendsResultsBack, "thrown")
  /\ hostAct' = [hostAct EXCEPT !.thrown = IF ev'.error = "none" THEN hostAct.caught
                                           ELSE Thrown(ev'.error, ev'.op)]

Host ==
  \/ WorkflowCreate
  \/ WorkflowInject
  \/ WorkflowModuleInject
  \/ WorkflowActivate
  \/ RunBatch
  \/ BatchReturns
  \/ ProcessCalls
  \/ WorkflowTryUnblock
  \/ Conclude
  \/ Catch
  \/ Flush

\* Workflow code that touches a forbidden global.
ForbiddenCode == \E k \in WeakKinds : constructWeak(k)

HostNext ==
  \/ setRequireFunc
  \/ Host
  \/ WorkflowCode
  \/ ForbiddenCode
  \/ dispatchJob
  \/ continueJob
  \/ microtasksDone

HostSpec == Init /\ [][HostNext]_vars

\* The steps of a Workflow.activate call in progress: each is the continuation
\* of an awaited promise, which the event loop of the worker runs once it is
\* settled.
HostSteps ==
  \/ RunBatch
  \/ BatchReturns
  \/ ProcessCalls
  \/ WorkflowTryUnblock
  \/ Conclude
  \/ Catch
  \/ Flush

\* The steps of the isolate while a call into it is in progress: jobs.map and
\* the microtask queue run to the end; workflow code may stop at any point.
IsolateSteps == dispatchJob \/ continueJob \/ microtasksDone

\* HostLiveSpec: the worker delivers activations of one job each, and the steps
\* of the call in progress and of the isolate are taken when they can be.
LiveActivate ==
  /\ WorkflowActivate
  /\ Len(hostAct'.activation.jobs) = 1

HostLiveNext ==
  \/ setRequireFunc
  \/ WorkflowCreate
  \/ WorkflowInject
  \/ WorkflowModuleInject
  \/ LiveActivate
  \/ HostSteps
  \/ WorkflowCode
  \/ IsolateSteps

HostLiveSpec ==
  Init /\ [][HostLiveNext]_vars /\ WF_vars(HostSteps) /\ WF_vars(IsolateSteps)

\* ----------------- UnblockSpec: tryUnblockConditions on any blocked list
\* The variables the predicates of the blocked conditions read.
UnblockFlags == {"x", "y"}

\* The lists of blocked conditions a workflow may have registered: seqs
\* 0, 1, ... in the order of registration, each predicate reading one variable.
BlockedLists ==
  UNION {{[i \in 1..n |-> [seq |-> i - 1, fn |-> fns[i]]] : fns \in [1..n -> UnblockFlags]} :
           n \in 0..MaxConditions}

\* A started workflow that blocked on a list of conditions, with any values
\* of its variables, before the worker calls tryUnblockConditions.
UnblockInit ==
  /\ logger = DefaultLogger("INFO")
  /\ handover = [enqueued |-> <<>>, handed |-> <<>>, named |-> {}]
  /\ \E conds \in BlockedLists :
       /\ blockedConditions = conds
       /\ nextSeqs = [timer |-> 0, dependency |-> 0, condition |-> Len(conds)]
       /\ allocated = [timer |-> <<>>, dependency |-> <<>>,
                       condition |-> [i \in 1..Len(conds) |-> i - 1]]
  /\ flags \in SUBSET UnblockFlags
  /\ info = [set |-> TRUE, isReplaying |-> FALSE]
  /\ require = TRUE
  /\ now = 5
  /\ completed = FALSE
  /\ commands = <<>>
  /\ completions = [timer |-> {}, dependency |-> {}]
  /\ pendingExternalCalls = <<>>
  /\ dependencies = [n \in DepNames |-> "none"]
  /\ interceptors = <<>>
  /\ workflow = TRUE
  /\ mode = "idle"
  /\ act = NoAct
  /\ runnable = FALSE
  /\ promises = <<>>
  /\ settled = [timer |-> <<>>, dependency |-> <<>>, condition |-> <<>>]
  /\ callbacks = <<>>
  /\ pushed = <<>>
  /\ flushed = <<>>
  /\ nJobs = 0
  /\ nOps = 0
  /\ overrides = 1
  /\ random = alea(1)
  /\ drawn = <<>>
  /\ hookEvents = <<>>
  /\ ev = [op |-> "init"]
  /\ hostPc = "idle"
  /\ hostDeps = {}
  /\ hostAct = NoHostAct
  /\ hostCalls = <<>>

\* The worker calls tryUnblockConditions; the code it unblocked assigns
\* variables; the microtasks end.
UnblockNext ==
  \/ callTryUnblockConditions /\ UNCHANGED host
  \/ \E f \in UnblockFlags : setFlag(f)
  \/ microtasksDone

UnblockSpec == UnblockInit /\ [][UnblockNext]_vars

\* ------------- GlobalsSpec: workflow code on the globals of the isolate
RandomnessSeeds == {1, 2}

\* The worker sets the isolate up, calling overrideGlobals again at any idle
\* moment, and activates the workflow one job at a time.
GlobalsInitRuntime ==
  \E seed \in RandomnessSeeds, t \in InitialNows :
    require /\ initRuntime(<<>>, seed, t, TRUE, <<>>)

GlobalsActivate ==
  \E a \in Activations :
    /\ Len(a.jobs) = 1 /\ WellFormed(a.jobs[1])
    /\ nJobs + 1 <= MaxJobs
    /\ SetUp
    /\ activate(a, 0)
    /\ nJobs' = nJobs + 1
    /\ UNCHANGED host

GlobalsCode ==
  \/ setTimeout
  \/ \E h \in 0..(MaxSeq - 1) : clearTimeout(h)
  \/ mathRandom
  \/ \E args \in DateArgs : readDate(args)
  \/ \E str \in DateStrings : dateParse(str)
  \/ ForbiddenCode

GlobalsNext ==
  \/ overrideGlobals
  \/ setRequireFunc
  \/ GlobalsInitRuntime
  \/ CallInject
  \/ GlobalsActivate
  \/ CallConcludeActivation
  \/ GlobalsCode
  \/ dispatchJob
  \/ continueJob
  \/ ReturnFromActivate

GlobalsSpec == Init /\ [][GlobalsNext]_vars

\* -------- ResolveSpec: resolveExternalDependencies on any list of entries
MaxCalls == 3
MaxResults == 3

\* The entries a caller may pass: any seq up to the next one to be issued, with
\* a result or an error.
AnyEntries ==
  {[seq |-> q, result |-> "ok", error |-> "undefined"] : q \in 0..MaxCalls}
    \cup {[seq |-> q, result |-> "undefined", error |-> "boom"] : q \in 0..MaxCalls}

\* A workflow that issued n ASYNC calls of blocker.block, all handed out, of
\* which those outside `open` were resolved one by one.
ResolveInit ==
  /\ \E n \in 0..MaxCalls, open \in SUBSET (0..(MaxCalls - 1)) :
       /\ open \subseteq 0..(n - 1)
       /\ nextSeqs = [timer |-> 0, dependency |-> n, condition |-> 0]
       /\ allocated = [timer |-> <<>>, dependency |-> [i \in 1..n |-> i - 1],
                       condition |-> <<>>]
       /\ completions = [timer |-> {}, dependency |-> open]
       /\ promises = [q \in 0..(n - 1) |->
                        IF q \in open
                          THEN [status |-> "pending", value |-> "undefined", by |-> <<>>]
                          ELSE Settle([status |-> "pending", value |-> "undefined", by |-> <<>>],
                                      [seq |-> q, result |-> "ok", error |-> "undefined"])]
       /\ settled = [timer |-> <<>>,
                     dependency |-> [q \in (0..(n - 1)) \ open |-> 1],
                     condition |-> <<>>]
       /\ handover = [enqueued |-> [i \in 1..n |-> AsyncCall(<<"blocker", "block">>, <<42>>, i - 1)],
                      handed |-> [i \in 1..n |-> AsyncCall(<<"blocker", "block">>, <<42>>, i - 1)],
                      named |-> (0..(n - 1)) \ open]
  /\ logger = DefaultLogger("INFO")
  /\ info = [set |-> TRUE, isReplaying |-> FALSE]
  /\ require = TRUE
  /\ now = 5
  /\ completed = FALSE
  /\ commands = <<>>
  /\ blockedConditions = <<>>
  /\ pendingExternalCalls = <<>>
  /\ dependencies = [n \in DepNames |-> IF n = <<"blocker", "block">> THEN "ASYNC" ELSE "none"]
  /\ interceptors = <<>>
  /\ workflow = TRUE
  /\ mode = "idle"
  /\ act = NoAct
  /\ runnable = FALSE
  /\ flags = {}
  /\ callbacks = <<>>
  /\ pushed = <<>>
  /\ flushed = <<>>
  /\ nJobs = 0
  /\ nOps = 0
  /\ overrides = 1
  /\ random = alea(1)
  /\ drawn = <<>>
  /\ hookEvents = <<>>
  /\ ev = [op |-> "init"]
  /\ hostPc = "idle"
  /\ hostDeps = {}
  /\ hostAct = NoHostAct
  /\ hostCalls = <<>>

\* The caller passes one list and keeps it, with the registry it was passed to.
ResolveCall ==
  \E rs \in SeqsUpTo(AnyEntries, MaxResults) \ {<<>>} :
    /\ hostAct.sent = <<>>
    /\ resolveExternalDependencies(rs)
    /\ hostAct' = [NoHostAct EXCEPT !.sent = <<[results |-> rs,
                                                registered |-> completions.dependency]>>]
    /\ UNCHANGED <<hostPc, hostDeps, hostCalls>>

ResolveNext ==
  \/ ResolveCall
  \/ microtasksDone

ResolveSpec == ResolveInit /\ [][ResolveNext]_vars

\* ---- ResumeSpec: Workflow.activate from the results of a batch onwards
\* The first batch, [startWorkflow], has returned: the workflow called
\* blocker.block once and blocked on nothing, so the worker holds that call and
\* numBlockedConditions = 0. A batch of one query may be left to run, and
\* metrics.emit may have been injected without its function registered.
ResumeInit ==
  LET call == AsyncCall(<<"blocker", "block">>, <<42>>, 0)
      start == Job("startWorkflow", TRUE, 0)
      query == Job("queryWorkflow", TRUE, 0)
  IN
  /\ \E left \in {<<>>, <<<<query>>>>} :
       /\ hostAct = [NoHostAct EXCEPT
                       !.activation = [timestamp |-> <<1, 500000000>>, isReplaying |-> TRUE,
                                       jobs |-> <<start>> \o (IF left = <<>> THEN <<>> ELSE <<query>>)],
                       !.batches = left,
                       !.batchIndex = 1,
                       !.sent = <<[jobs |-> <<start>>, batchIndex |-> 0]>>]
       /\ nJobs = 1 + Len(left)
  /\ hostDeps \in {{<<"blocker", "block">>}, {<<"blocker", "block">>, <<"metrics", "emit">>}}
  /\ hostPc = "process"
  /\ hostCalls = <<call>>
  /\ ev = [op |-> "activateReturn", error |-> "none", externalCalls |-> <<call>>,
           numBlockedConditions |-> 0]
  /\ handover = [enqueued |-> <<call>>, handed |-> <<call>>, named |-> {}]
  /\ nextSeqs = [timer |-> 0, dependency |-> 1, condition |-> 0]
  /\ allocated = [timer |-> <<>>, dependency |-> <<0>>, condition |-> <<>>]
  /\ completions = [timer |-> {}, dependency |-> {0}]
  /\ promises = (0 :> [status |-> "pending", value |-> "undefined", by |-> <<>>])
  /\ settled = [timer |-> <<>>, dependency |-> <<>>, condition |-> <<>>]
  /\ dependencies = [n \in DepNames |->
                       (CHOOSE i \in {Injections[j] : j \in 1..Len(Injections)} : i[1] = n)[2]]
  /\ logger = DefaultLogger("INFO")
  /\ info = [set |-> TRUE, isReplaying |-> TRUE]
  /\ require = TRUE
  /\ now = tsToMs(<<1, 500000000>>)
  /\ completed = FALSE
  /\ commands = <<>>
  /\ blockedConditions = <<>>
  /\ pendingExternalCalls = <<>>
  /\ interceptors = <<>>
  /\ workflow = TRUE
  /\ mode = "idle"
  /\ act = NoAct
  /\ runnable = FALSE
  /\ flags = {}
  /\ callbacks = <<>>
  /\ pushed = <<>>
  /\ flushed = <<>>
  /\ nOps = 0
  /\ overrides = 1
  /\ random = alea(1)
  /\ drawn = <<>>
  /\ hookEvents = <<>>

ResumeNext ==
  \/ HostSteps
  \/ WorkflowCode
  \/ IsolateSteps

ResumeSpec == ResumeInit /\ [][ResumeNext]_vars

\* ------------------ LoggerSpec: a DefaultLogger of any level, called freely
LoggerInit ==
  /\ \E l \in LogLevel : logger = DefaultLogger(l)
  /\ handover = [enqueued |-> <<>>, handed |-> <<>>, named |-> {}]
  /\ info = [set |-> FALSE, isReplaying |-> FALSE]
  /\ require = FALSE
  /\ now = 0
  /\ completed = FALSE
  /\ commands = <<>>
  /\ nextSeqs = [timer |-> 0, dependency |-> 0, condition |-> 0]
  /\ completions = [timer |-> {}, dependency |-> {}]
  /\ blockedConditions = <<>>
  /\ pendingExternalCalls = <<>>
  /\ dependencies = [n \in DepNames |-> "none"]
  /\ interceptors = <<>>
  /\ workflow = FALSE
  /\ mode = "idle"
  /\ act = NoAct
  /\ runnable = FALSE
  /\ flags = {}
  /\ promises = <<>>
  /\ settled = [timer |-> <<>>, dependency |-> <<>>, condition |-> <<>>]
  /\ allocated = [timer |-> <<>>, dependency |-> <<>>, condition |-> <<>>]
  /\ callbacks = <<>>
  /\ pushed = <<>>
  /\ flushed = <<>>
  /\ nJobs = 0
  /\ nOps = 0
  /\ overrides = 1
  /\ random = NoRandom
  /\ drawn = <<>>
  /\ hookEvents = <<>>
  /\ ev = [op |-> "init"]
  /\ hostPc = "idle"
  /\ hostDeps = {}
  /\ hostAct = NoHostAct
  /\ hostCalls = <<>>

LoggerNext ==
  \/ \E l \in LogLevel, m \in Messages, meta \in Metas : log(l, m, meta)
  \/ \E m \in Messages, meta \in Metas : trace(m, meta)
  \/ \E m \in Messages, meta \in Metas : debug(m, meta)
  \/ \E m \in Messages, meta \in Metas : logInfo(m, meta)
  \/ \E m \in Messages, meta \in Metas : warn(m, meta)
  \/ \E m \in Messages, meta \in Metas : error(m, meta)

LoggerSpec == LoggerInit /\ [][LoggerNext]_vars

\* ================================================================ claims
Range(seq) == {seq[i] : i \in 1..Len(seq)}
Increasing(seq) == \A i, j \in 1..Len(seq) : i < j => seq[i] < seq[j]
\* The kinds of completions the code of this model registers.
SeqKinds == {"timer", "dependency"}
\* The number of resolve/reject calls on the completion registered as (kind, q).
Calls(kind, q) == IF q \in DOMAIN settled[kind] THEN settled[kind][q] ELSE 0
\* workflow code called clearTimeout(q)
Cancelled(q) == \E i \in 1..Len(pushed) : pushed[i] = Command("cancelTimer", q)
Concluded(type) == ev.op = "concludeActivation" /\ ev.type = type

\* C1 as stated: once state.completed is true, every job whose variant is not
\* queryWorkflow is dropped silently (no handler invoked, no error raised) and
\* every queryWorkflow job is dispatched to its handler.
C1_AsStated ==
  (ev.op = "dispatch" /\ ev.completed) =>
    ev.outcome = IF ev.job.variant = "queryWorkflow" THEN "invoked" ELSE "dropped"

\* C1 amended: once state.completed is true, every job that names a variant and
\* carries its payload is dropped silently unless it is a queryWorkflow job,
\* which is dispatched to its handler; a job without variant or payload raises
\* a TypeError, completed or not.
C1_PostCompletionDrop ==
  ev.op = "dispatch" =>
    /\ (ev.completed /\ WellFormed(ev.job)) =>
         ev.outcome = IF ev.job.variant = "queryWorkflow" THEN "invoked" ELSE "dropped"
    /\ ~WellFormed(ev.job) => ev.outcome = "TypeError"

\* A fireTimer job of a registered timer is dropped after completion.
C1_Witness ==
  /\ ev.op = "dispatch" /\ ev.completed
  /\ ev.job.variant = "fireTimer" /\ ev.job.seq \in completions.timer
  /\ ev.outcome = "dropped"

\* C2: concludeActivation returns 'complete' only when the pending list is
\* empty at the call and otherwise 'pending' with the calls of the list; when
\* Workflow.activate returns the completion no external call is left, in the
\* isolate or received and unprocessed by the host.
C2_CompleteOnlyWhenDrained ==
  ev.op = "concludeActivation" =>
    /\ ev.type = "complete" <=> ev.drained = <<>>
    /\ ev.type = "pending" =>
         ev.pendingExternalCalls = ev.drained /\ hostCalls = ev.drained /\ hostPc = "process"
    /\ ev.type = "complete" =>
         hostPc = "idle" /\ hostCalls = <<>> /\ pendingExternalCalls = <<>>

\* A pending conclusion handed the host a call made after the batch returned.
C2_Witness ==
  /\ Concluded("pending")
  /\ hostCalls # <<>>
  /\ DOMAIN settled.dependency # {}

\* C3: with no concludeActivation interceptor installed, a 'complete'
\* conclusion carries exactly the commands pushed since the previous one, in
\* the order of the pushCommand calls: the conclusions so far followed by the
\* buffer are the pushed commands, none lost, duplicated or reordered.
C3_CommandsFlushedInOrder ==
  interceptors = <<>> =>
    /\ flushed \o commands = pushed
    /\ Concluded("complete") =>
         LET out == ev.encoded.successful IN
           /\ flushed = pushed
           /\ Len(out) <= Len(pushed)
           /\ out = SubSeq(pushed, Len(pushed) - Len(out) + 1, Len(pushed))

\* A second non-empty 'complete' conclusion without interceptors.
C3_Witness ==
  /\ interceptors = <<>>
  /\ Concluded("complete")
  /\ ev.encoded.successful # <<>>
  /\ Len(flushed) > Len(ev.encoded.successful)

\* C4: immediately after concludeActivation returned a result of type
\* 'complete', state.commands is empty.
C4_BufferEmptyAfterComplete == Concluded("complete") => commands = <<>>

\* A 'complete' conclusion that carried commands.
C4_Witness == Concluded("complete") /\ ev.encoded.successful # <<>> /\ commands = <<>>

\* C5: for timers and dependencies the seqs allocated in a run are strictly
\* increasing (so never reused) and below the counter, under any interleaving
\* of setTimeout, clearTimeout and ASYNC calls; the counters never decrease.
C5_SeqsIncrease ==
  /\ [](\A k \in SeqKinds :
          /\ Increasing(allocated[k])
          /\ \A q \in Range(allocated[k]) : q < nextSeqs[k])
  /\ [][\A k \in SeqKinds : nextSeqs'[k] >= nextSeqs[k]]_vars

\* Two timers were started.
C5_Witness == Len(allocated.timer) = 2 /\ nextSeqs.timer = 2

\* C6: a dependency completion is consumed exactly once. A registered one is
\* pending and unsettled; a consumed one is gone and was settled by one call;
\* resolveExternalDependencies settles every entry up to the first that names
\* a seq without registered completion (never registered, or consumed before),
\* where it fails with IllegalStateError.
C6_ConsumedOnce ==
  /\ \A q \in completions.dependency :
       Calls("dependency", q) = 0 /\ promises[q].status = "pending"
  /\ \A q \in DOMAIN settled.dependency :
       /\ settled.dependency[q] = 1
       /\ q \notin completions.dependency
       /\ promises[q].status # "pending"
  /\ ev.op = "resolveExternalDependencies" =>
       IF ev.failed = <<>>
         THEN ev.error = "none" /\ ev.done = ev.entries
         ELSE /\ ev.error = "IllegalStateError"
              /\ ev.done < ev.entries
              /\ ev.failed[1] \notin completions.dependency

\* An entry naming a seq that was consumed before failed.
C6_Witness ==
  /\ ev.op = "resolveExternalDependencies"
  /\ ev.failed # <<>>
  /\ ev.failed[1] \in DOMAIN settled.dependency

\* C7 as stated: every registered completion is resolved or rejected exactly
\* once and then removed: none is removed unsettled, none settled twice.
C7_AsStated ==
  \A k \in SeqKinds : \A q \in Range(allocated[k]) :
    /\ Calls(k, q) <= 1
    /\ q \in completions[k] <=> Calls(k, q) = 0

\* C7 amended: no completion is resolved or rejected more than once; one that is
\* registered has not been settled; one that was removed was settled, or is a
\* timer that clearTimeout cancelled (removed without resolve or reject).
C7_SettledOnceOrCancelled ==
  \A k \in SeqKinds : \A q \in Range(allocated[k]) :
    /\ Calls(k, q) <= 1
    /\ q \in completions[k] => Calls(k, q) = 0
    /\ q \notin completions[k] => Calls(k, q) = 1 \/ (k = "timer" /\ Cancelled(q))

\* A dependency completion was settled and removed, a timer's still registered.
C7_Witness ==
  /\ \E q \in Range(allocated.dependency) :
       q \notin completions.dependency /\ Calls("dependency", q) = 1
  /\ completions.timer # {}

\* C8: once initRuntime has set it, state.now changes only in activate called
\* with batchIndex 0 and an activation carrying a timestamp, and becomes that
\* timestamp; every other call leaves it. The clock read while such a call
\* runs workflow code returns the timestamp.
C8_ClockFrame ==
  /\ [][now' # now =>
          /\ ev'.op \in {"initRuntime", "activate"}
          /\ ev'.op = "activate" =>
               /\ ev'.batchIndex = 0
               /\ ev'.timestamp # <<>>
               /\ now' = tsToMs(ev'.timestamp)]_vars
  /\ []((mode = "activate" /\ act.batchIndex = 0 /\ act.timestamp # <<>>) =>
          DateNow = tsToMs(act.timestamp))

\* Workflow code ran in a first batch whose timestamp replaced the initial now.
C8_Witness ==
  /\ mode = "activate" /\ act.batchIndex = 0 /\ act.timestamp # <<>>
  /\ ev.op = "setTimeout"
  /\ DateNow = 1500

\* C9 as stated: an entry {seq, result} resolves the promise of the call that
\* was allocated seq with result, an entry {seq, error} rejects it with error,
\* whatever the value of error.
C9_AsStated ==
  \A q \in DOMAIN promises :
    promises[q].by # <<>> =>
      LET e == promises[q].by[1] IN
        IF e.error # "undefined"
          THEN promises[q].status = "rejected" /\ promises[q].value = e.error
          ELSE promises[q].status = "resolved" /\ promises[q].value = e.result

\* C10 as stated: a call of an ASYNC_IGNORED stub appends one entry
\* {ifaceName, fnName, args} without seq and returns nothing.
C10_AsStated ==
  ev.op = "callAsyncIgnored" =>
    /\ pendingExternalCalls # <<>>
    /\ pendingExternalCalls[Len(pendingExternalCalls)] = IgnoredCall(ev.name, ev.args)
    /\ ev.returned = <<>>

Last(seq) == seq[Len(seq)]
Failed == completed /\ commands # <<>> /\ Last(commands).type = "failWorkflowExecution"

\* C11 as stated: whatever error a job raises during activate (a determinism
\* violation, a malformed job's TypeError), the activation ends with a
\* failWorkflowExecution command in the buffer and completed = true, and no
\* error escapes activate to the host.
C11_AsStated ==
  /\ (ev.op = "dispatch" /\ ev.outcome \in {"TypeError", "IllegalStateError"}) => Failed
  /\ (ev.op = "constructWeak" /\ ev.error # <<>>) => Failed
  /\ ev.op = "activateReturn" => ev.error = "none"

\* C11 amended: an error thrown by the workflow code (a determinism violation)
\* is routed to handleWorkflowFailure: a failWorkflowExecution command ends the
\* buffer, completed = true, and the host is not in its catch block. The TypeError
\* of a malformed job and the IllegalStateError of a handler are not caught:
\* they fail no workflow, activate rejects with the first of them, and
\* Workflow.activate enters its catch block, which rethrows.
C11_FailureRouting ==
  /\ (ev.op = "constructWeak" /\ ev.error # <<>>) => Failed /\ hostPc # "catch"
  /\ (ev.op = "dispatch" /\ ev.outcome \in {"TypeError", "IllegalStateError"}) =>
       /\ completed = ev.completed
       /\ act.error # <<>>
       /\ commands = <<>> \/ Last(commands).type # "failWorkflowExecution" \/ ev.completed
  /\ act.error # <<>> => mode = "activate"
  /\ ev.op = "activateReturn" =>
       IF ev.error = "none" THEN hostPc = "process"
       ELSE hostPc = "catch" /\ ev.error \in {"TypeError", "IllegalStateError"}

\* The TypeError of a malformed job escaped activate to the catch block of
\* Workflow.activate, and the workflow was not failed.
C11_Witness ==
  /\ ev.op = "activateReturn" /\ ev.error = "TypeError"
  /\ hostPc = "catch"
  /\ ~completed

\* C12: tryUnblockConditions returns the number of blocked conditions whose
\* predicate is true, so 0 if and only if none is; each of them had its
\* resolver called exactly once and was removed from blockedConditions, the
\* others stay in their order with no resolver called, and no entry left after
\* the call has a true predicate (the last pass unblocked none).
C12_UnblockCount ==
  ev.op = "tryUnblockConditions" =>
    LET before == ev.before
        true == {i \in 1..Len(before) : before[i].fn \in flags}
    IN
      /\ ev.numUnblocked = Cardinality(true)
      /\ ev.numUnblocked = 0 <=> \A i \in 1..Len(before) : before[i].fn \notin flags
      /\ blockedConditions = SelectSeq(before, LAMBDA c : c.fn \notin flags)
      /\ \A i \in 1..Len(before) :
           Calls("condition", before[i].seq) = IF i \in true THEN 1 ELSE 0
      /\ \A i \in 1..Len(blockedConditions) : blockedConditions[i].fn \notin flags

\* A call on three conditions resolved the first and the third and left the
\* second, whose predicate is false.
C12_Witness ==
  /\ ev.op = "tryUnblockConditions"
  /\ Len(ev.before) = 3
  /\ ev.numUnblocked = 2
  /\ Len(blockedConditions) = 1 /\ blockedConditions[1].seq = 1

\* The jobs of one kind, in their order in the activation.
JobsOf(jobs, kinds) == SelectSeq(jobs, LAMBDA j : j.variant \in kinds)
\* The activate calls C13 states for an activation: its non-empty batches in
\* the order patches, signals, others, queries, numbered from 0.
StatedCalls(jobs) ==
  LET special == {"notifyHasPatch", "signalWorkflow", "queryWorkflow"}
      batches == SelectSeq(<<JobsOf(jobs, {"notifyHasPatch"}),
                             JobsOf(jobs, {"signalWorkflow"}),
                             SelectSeq(jobs, LAMBDA j : j.variant \notin special),
                             JobsOf(jobs, {"queryWorkflow"})>>,
                           LAMBDA b : b # <<>>)
  IN [i \in 1..Len(batches) |-> [jobs |-> batches[i], batchIndex |-> i - 1]]

\* C13 as stated: the activate calls of one Workflow.activate are, in order,
\* the non-empty batches patches, signals, other non-query jobs, queries of the
\* activation, each keeping the order of the activation, with batchIndex
\* 0, 1, 2, ...: at any moment the calls made so far are the first of them, and
\* all of them are made before the conclusion.
C13_AsStated ==
  hostAct.activation # <<>> =>
    LET stated == StatedCalls(hostAct.activation.jobs) IN
      /\ Len(hostAct.sent) <= Len(stated)
      /\ hostAct.sent = SubSeq(stated, 1, Len(hostAct.sent))
      /\ hostPc = "conclude" => hostAct.sent = stated

\* C14: when the workflow lookup of initRuntime fails, initRuntime returns
\* normally, state.workflow stays unset, and the one command pushed is a
\* failWorkflowExecution whose failure is a non-retryable ApplicationFailure of
\* type 'ReferenceError' with at most one stack line; the run is completed
\* from then on, and every later well-formed non-query job (startWorkflow
\* included) is dropped.
C14_LookupFailure ==
  /\ (ev.op = "initRuntime" /\ ev.lookup = "failed") =>
       /\ ev.error = "none"
       /\ ~workflow
       /\ completed
       /\ Len(pushed) = 1 /\ commands = pushed
       /\ pushed[1].type = "failWorkflowExecution"
       /\ pushed[1].failure.name = "ApplicationFailure"
       /\ pushed[1].failure.type = "ReferenceError"
       /\ pushed[1].failure.nonRetryable
       /\ Len(pushed[1].failure.stack) <= 1
  /\ (info.set /\ mode # "dead" /\ ~workflow) =>
       /\ completed
       /\ ev.op = "dispatch" =>
            ev.outcome = IF ~WellFormed(ev.job) THEN "TypeError"
                         ELSE IF ev.job.variant = "queryWorkflow" THEN "invoked"
                         ELSE "dropped"

\* After a failed lookup a startWorkflow job was dropped.
C14_Witness ==
  /\ info.set /\ ~workflow
  /\ pushed # <<>> /\ pushed[1].failure.stack # <<>>
  /\ ev.op = "dispatch" /\ ev.job = Job("startWorkflow", TRUE, 0)
  /\ ev.outcome = "dropped"

\* The startTimer and cancelTimer commands of timer h among cmds, in order.
TimerCommands(cmds, h) ==
  SelectSeq(cmds, LAMBDA c : c.type \in {"startTimer", "cancelTimer"} /\ c.seq = h)
\* clearTimeout(h) was called after setTimeout returned h.
StartedThenCancelled(h) ==
  LET tc == TimerCommands(pushed, h) IN
    \E i, j \in 1..Len(tc) :
      i < j /\ tc[i] = Command("startTimer", h) /\ tc[j] = Command("cancelTimer", h)
\* The last two elements of a sequence.
LastTwo(seq) == SubSeq(seq, Len(seq) - 1, Len(seq))

FailureCommand(failure) ==
  [type |-> "failWorkflowExecution", seq |-> 0, failure |-> failure]

\* C16: once overrideGlobals has run, WeakMap, WeakSet and WeakRef are the
\* throwing stubs, before and after initRuntime; workflow code that constructs
\* one gets the determinism-violation error, the workflow is failed with it
\* (completed, and the failWorkflowExecution command carrying that error ends
\* the buffer), and the completion Workflow.activate returns for the activation
\* carries every failure command pushed and not yet returned.
C16_WeakStubs ==
  /\ overrides > 0 => \A k \in WeakKinds : Stubbed(k, overrides, info.set)
  /\ ev.op = "constructWeak" =>
       /\ ev.error = <<DeterminismViolation(ev.kind)>>
       /\ ev.error[1].name = "DeterminismViolationError"
       /\ completed
       /\ commands # <<>> /\ Last(commands) = FailureCommand(DeterminismViolation(ev.kind))
  /\ \A i \in 1..Len(pushed) :
       pushed[i].type = "failWorkflowExecution" =>
         \/ pushed[i] \in Range(commands)
         \/ pushed[i] \in Range(flushed)
  /\ Concluded("complete") =>
       \A i \in 1..Len(pushed) :
         pushed[i].type = "failWorkflowExecution" => pushed[i] \in Range(flushed)

\* Workflow.activate returned a completion whose commands include the
\* failWorkflowExecution of a WeakRef construction.
C16_Witness ==
  /\ Concluded("complete") /\ hostPc = "idle"
  /\ FailureCommand(DeterminismViolation("WeakRef")) \in Range(ev.encoded.successful)

C20_Idempotent ==
  overrides >= 1 =>
    /\ \A args \in DateArgs :
         /\ DateConstruct(overrides, args, now) = DateConstruct(1, args, now)
         /\ DateConstruct(overrides, args, now) = IF args = <<>> THEN now ELSE NativeDate(args)
    /\ DateNowAt(overrides, now) = DateNowAt(1, now) /\ DateNow = now
    /\ \A str \in DateStrings :
         DateParse(overrides, str) = DateParse(1, str) /\ DateParse(overrides, str) = NativeParse(str)
    /\ \A d \in Days :
         DateUTC(overrides, d) = DateUTC(1, d) /\ DateUTC(overrides, d) = NativeUTC(d)
    /\ TimerGlobals(overrides) = TimerGlobals(1)
    /\ RandomSource(overrides) = RandomSource(1)
    /\ \A k \in WeakKinds :
         Stubbed(k, overrides, info.set) = Stubbed(k, 1, info.set)
    /\ ev.op = "Date" => ev.value = IF ev.args = <<>> THEN now ELSE NativeDate(ev.args)
    /\ ev.op = "Date.parse" => ev.value = NativeParse(ev.str)
    /\ ev.op = "constructWeak" => ev.error = <<DeterminismViolation(ev.kind)>>
    /\ ev.op = "setTimeout" => ev.seq \in completions.timer
    /\ ev.op = "clearTimeout" => ev.seq \notin completions.timer

\* After two overrideGlobals calls workflow code read the clock of its
\* activation with a Date without argument.
C20_Witness ==
  /\ overrides = 2
  /\ ev.op = "Date" /\ ev.args = <<>>
  /\ ev.value = 1500

Observed == "observer" \in Range(interceptors)
HookNames(events) == [i \in 1..Len(events) |-> events[i].hook]

\* C18 as stated: with an internals interceptor installed, the hook events of
\* every activation are one activate followed by one concludeActivation, so
\* that over two activations they alternate activate, concludeActivation,
\* activate, concludeActivation.
C18_AsStated ==
  (Observed /\ Concluded("complete")) =>
    HookNames(ev.hooks) = <<"activate", "concludeActivation">>

\* C18 amended: with an internals interceptor installed, the activate chain
\* runs once for every activate call, with its batchIndex, and the
\* concludeActivation chain once for every conclusion that completes, after
\* the activate hooks of that activation and never for a pending conclusion:
\* an activation delivered in k activate calls logs k activate events and then
\* one concludeActivation event (k = 0 for an activation without jobs), so the
\* events alternate only over activations delivered in one call each.
C18_HookEvents ==
  /\ ~Observed => hookEvents = <<>>
  /\ Observed =>
       /\ hookEvents = [i \in 1..Len(hostAct.sent) |->
                          [hook |-> "activate", arg |-> hostAct.sent[i].batchIndex]]
       /\ Concluded("complete") =>
            LET n == Len(ev.hooks) IN
              /\ n >= 1
              /\ ev.hooks[n] = [hook |-> "concludeActivation",
                                arg |-> Len(ev.encoded.successful)]
              /\ \A i \in 1..(n - 1) : ev.hooks[i] = [hook |-> "activate", arg |-> i - 1]
       /\ Concluded("pending") =>
            \A i \in 1..Len(hookEvents) : hookEvents[i].hook = "activate"

\* An activation delivered in two batches logged activate, activate,
\* concludeActivation.
C18_Witness ==
  /\ Observed /\ Concluded("complete")
  /\ HookNames(ev.hooks) = <<"activate", "activate", "concludeActivation">>

\* C19: initRuntime called while no module loader is installed fails with an
\* illegal-state error and loads no interceptor and no workflow; activate with
\* batchIndex 0 called while state.info is unset fails with an illegal-state
\* error, whatever jobs it carries, and dispatches none of them: the isolate
\* stays idle with no job handled. Neither pushes a command.
C19_IllegalState ==
  /\ ev.op = "initRuntime" =>
       /\ ev.error = "IllegalStateError" <=> ~require
       /\ ~require => interceptors = <<>> /\ ~workflow /\ pushed = <<>> /\ mode = "dead"
  /\ (ev.op = "activate" /\ ev.batchIndex = 0 /\ ~info.set) =>
       /\ ev.error = "IllegalStateError"
       /\ mode = "idle" /\ act = NoAct
       /\ interceptors = <<>> /\ ~workflow /\ pushed = <<>>
  /\ (~info.set \/ mode = "dead") =>
       /\ ev.op # "dispatch"
       /\ settled = [timer |-> <<>>, dependency |-> <<>>, condition |-> <<>>]
       /\ commands = <<>>

\* A first batch carrying a job was refused before initRuntime.
C19_Witness ==
  /\ ev.op = "activate" /\ ev.error = "IllegalStateError"
  /\ ev.jobs = 1
  /\ ~info.set


\* ---------------------------------------------------------------- C21
\* C21 as stated: when a job of a batch completes the workflow, synchronously or
\* after a suspension point, no later non-query job of that batch has had its
\* handler invoked.
C21_AsStated ==
  (mode = "activate" /\ act.by > 0) => \A j \in act.handlers : j <= act.by

\* C21, amended: when a job of a batch completes the workflow before its handler
\* first suspends, no later non-query job of the batch has its handler invoked;
\* a completion after a suspension point comes when every job of the batch has
\* already passed the completed test.
C21_SyncCompletionDrops ==
  (mode = "activate" /\ act.by > 0) =>
     IF act.bySync THEN \A j \in act.handlers : j <= act.by
                   ELSE act.jobs = <<>>

C21_Witness ==
  /\ mode = "activate" /\ act.by = 1 /\ act.bySync /\ act.index = 2
  /\ ev.op = "dispatch" /\ ev.outcome = "dropped"
  /\ ev.job.variant # "queryWorkflow"


\* ---------------------------------------------------------------- C22
\* Whether the host holds a function for the call.
Registered(call) == <<call.ifaceName, call.fnName>> \in hostDeps

\* C22 as stated: when a step of Workflow.activate has thrown, every external
\* call pending in the isolate has been drained and invoked on the host, no
\* result was sent back, and the error thrown to the caller is the original one.
C22_AsStated ==
  hostPc = "thrown" =>
    /\ ev.op = "processExternalCalls"
    /\ pendingExternalCalls = <<>>
    /\ ev.invoked = ev.calls
    /\ hostAct.thrown = hostAct.caught

\* C22, amended: the pending calls are drained, those whose function is
\* registered on the host are invoked and no result is sent back; the original
\* error is rethrown when all of them are registered, and the TypeError of
\* processExternalCalls is thrown in its place when one is not.
C22_FlushOnFailure ==
  hostPc = "thrown" =>
    /\ ev.op = "processExternalCalls"
    /\ pendingExternalCalls = <<>>
    /\ ev.invoked = SelectSeq(ev.calls, Registered)
    /\ hostAct.caught # <<>>
    /\ hostAct.thrown =
         IF \A i \in 1..Len(ev.calls) : Registered(ev.calls[i])
           THEN hostAct.caught
           ELSE Thrown("TypeError", "processExternalCalls")

C22_Witness ==
  /\ hostPc = "thrown"
  /\ hostAct.caught = Thrown("TypeError", "activate")
  /\ hostAct.thrown = hostAct.caught
  /\ Len(ev.calls) = 2 /\ ev.invoked = ev.calls
  /\ \E i \in 1..2 : ev.calls[i].seq # <<>>


\* ---------------------------------------------------------------- C23
\* The seqs of the calls of a list that carry one, in order.
SeqsOf(calls) ==
  LET kept == SelectSeq(calls, LAMBDA c : c.seq # <<>>) IN
    [i \in 1..Len(kept) |-> kept[i].seq[1]]

\* C23: what a registered dependency function throws is delivered to the
\* isolate as the error of its call's entry and is not thrown to the host: the
\* entries sent are those of the seq-bearing calls of the list, in order, each
\* with a result or an error. A list with a call whose function is not
\* registered makes processExternalCalls throw a TypeError, and then no entry
\* of the list is sent: its seq-bearing calls stay registered and pending.
C23_ErrorsDelivered ==
  /\ ev.op = "resolveExternalDependencies" =>
       /\ \A i \in 1..Len(hostAct.calls) : Registered(hostAct.calls[i])
       /\ ev.entries = Len(SeqsOf(hostAct.calls)) /\ ev.done = ev.entries
       /\ \A q \in Range(SeqsOf(hostAct.calls)) :
            /\ promises[q].by # <<>> /\ promises[q].by[1].seq = q
            /\ <<promises[q].by[1].result, promises[q].by[1].error>> \in
                 {<<o.result, o.error>> : o \in Outcomes}
       /\ ev.error = "none" /\ hostPc \notin {"catch", "flush", "thrown"}
  /\ ev.op = "processExternalCalls" =>
       /\ ev.error = IF \A i \in 1..Len(ev.calls) : Registered(ev.calls[i])
                       THEN "none" ELSE "TypeError"
       /\ ev.error = "TypeError" =>
            /\ hostPc \in {"catch", "thrown"}
            /\ \A q \in Range(SeqsOf(ev.calls)) :
                 q \in completions.dependency /\ promises[q].status = "pending"
       /\ ev.error = "none" => SeqsOf(ev.calls) = <<>> \/ hostPc = "thrown"

C23_Witness ==
  /\ ev.op = "resolveExternalDependencies"
  /\ ev.entries = 2
  /\ promises[0].by[1].error = "boom" /\ promises[1].by[1].error = "undefined"
  /\ promises[0].status = "rejected"
  /\ hostPc \in {"batch", "conclude", "unblock"}

C23_WitnessUnregistered ==
  /\ ev.op = "processExternalCalls" /\ ev.error = "TypeError"
  /\ SeqsOf(ev.calls) # <<>>
  /\ hostPc = "catch"


C25_PendingFrame ==
  [][(pendingExternalCalls # <<>> /\ ev'.op = "concludeActivation") =>
       /\ ev'.type = "pending"
       /\ ev'.pendingExternalCalls = pendingExternalCalls
       /\ ev'.numBlockedConditions = Len(blockedConditions)
       /\ pendingExternalCalls' = <<>>
       /\ UNCHANGED <<info, require, now, completed, commands, nextSeqs, completions,
                      blockedConditions, dependencies, interceptors, workflow>>
       /\ UNCHANGED <<flushed, hookEvents, promises, settled, flags, position>>]_vars

C25_Witness ==
  /\ Concluded("pending")
  /\ commands # <<>> /\ flushed = <<>>
  /\ ev.numBlockedConditions = Len(blockedConditions)
  /\ ev.pendingExternalCalls # <<>> /\ pendingExternalCalls = <<>>



\* ---------------------------------------------------------------- C26
\* The order of the levels, and the level of each level method.
Rank(level) ==
  CASE level = "TRACE" -> 0 [] level = "DEBUG" -> 1 [] level = "INFO" -> 2
    [] level = "WARN" -> 3 [] level = "ERROR" -> 4
LevelOf(method) ==
  CASE method = "trace" -> "TRACE" [] method = "debug" -> "DEBUG"
    [] method = "info" -> "INFO" [] method = "warn" -> "WARN"
    [] method = "error" -> "ERROR"

\* The entries the last call passed to the log function.
Emitted == SubSeq(logger.entries, ev.before + 1, Len(logger.entries))

\* C26: a call of log, or of a level method with its own level, passes exactly
\* one entry to the log function when the level is at or above the logger's
\* level in the order TRACE < DEBUG < INFO < WARN < ERROR, and none otherwise;
\* the entry carries the level and the message, and its meta is undefined when
\* meta holds no key other than the timestamp symbol.
C26_LogFiltering ==
  ev.op = "log" =>
    /\ ev.method # "log" => ev.level = LevelOf(ev.method)
    /\ Len(Emitted) = IF Rank(ev.level) >= Rank(logger.level) THEN 1 ELSE 0
    /\ Len(Emitted) = 1 =>
         /\ Emitted[1].level = ev.level /\ Emitted[1].message = ev.message
         /\ (ev.meta = <<>> \/ DOMAIN ev.meta[1] \subseteq {LogTimestamp}) =>
              Emitted[1].meta = <<>>
         /\ (ev.meta # <<>> /\ "attr" \in DOMAIN ev.meta[1]) =>
              Emitted[1].meta = <<[k \in DOMAIN ev.meta[1] \ {LogTimestamp} |-> ev.meta[1][k]]>>

C26_Witness ==
  /\ ev.op = "log" /\ ev.method = "warn"
  /\ logger.level = "WARN" /\ logger.calls = 2
  /\ Len(logger.entries) = 1
  /\ ev.meta # <<>> /\ DOMAIN ev.meta[1] = {LogTimestamp}
  /\ Emitted = <<[level |-> "WARN", message |-> "m", meta |-> <<>>, timestampNanos |-> 7]>>


\* ---------------------------------------------------------------- C27
\* The last n elements of a sequence.
LastN(s, n) == SubSeq(s, Len(s) - n + 1, Len(s))

\* The list the last operation handed to its caller, when it handed one.
HandedNow ==
  IF ev.op = "activateReturn" /\ ev.error = "none" THEN <<ev.externalCalls>>
  ELSE IF Concluded("pending") THEN <<ev.pendingExternalCalls>>
  ELSE IF ev.op = "getAndResetPendingExternalCalls" THEN <<ev.calls>>
  ELSE <<>>

\* C27: the calls enqueued are, in order, the calls handed out so far followed
\* by the pending list, so each is handed out once and in the order enqueued;
\* each list handed out is the result of a returning activate, of a pending
\* conclusion or of getAndResetPendingExternalCalls, and the pending list is
\* empty when one of them has returned.
C27_HandedOnce ==
  /\ handover.enqueued = handover.handed \o pendingExternalCalls
  /\ HandedNow # <<>> =>
       /\ pendingExternalCalls = <<>>
       /\ Len(HandedNow[1]) <= Len(handover.handed)
       /\ LastN(handover.handed, Len(HandedNow[1])) = HandedNow[1]
  /\ Concluded("complete") => pendingExternalCalls = <<>>

C27_Witness ==
  /\ ev.op = "getAndResetPendingExternalCalls"
  /\ Len(ev.calls) = 1 /\ Len(handover.handed) = 2
  /\ handover.enqueued = handover.handed
  /\ handover.handed[1].seq # <<>>


\* ---------------------------------------------------------------- C28
\* C28: in a run driven by the worker, the dependency completions registered
\* are those of the ASYNC calls issued whose seq no entry of
\* resolveExternalDependencies has named; every seq-bearing call pending in the
\* isolate or held by the worker has its completion registered, and no entry
\* the worker sends names an unknown seq.
C28_RegistryMatchesCalls ==
  /\ completions.dependency = Range(allocated.dependency) \ handover.named
  /\ Range(SeqsOf(pendingExternalCalls)) \cup Range(SeqsOf(hostCalls))
       \subseteq completions.dependency
  /\ ev.op = "resolveExternalDependencies" => ev.error = "none" /\ ev.done = ev.entries

C28_Witness ==
  /\ hostPc # "idle"
  /\ handover.named = {0}
  /\ promises[0].status # "pending"
  /\ completions.dependency = {1}
  /\ SeqsOf(pendingExternalCalls) = <<1>>


\* ---------------------------------------------------------------- C29
\* The seqs the entries before the k-th name.
NamedBefore(rs, k) == {rs[i].seq : i \in 1..(k - 1)}

\* C29: when resolveExternalDependencies fails, it fails with the illegal-state
\* error at the first entry whose seq is unknown or already consumed; the
\* entries before it have been consumed and their promises settled by them, and
\* the entries after it have not been looked at: a completion that was
\* registered for one of them is still registered and its promise pending.
C29_NotAtomic ==
  (ev.op = "resolveExternalDependencies" /\ ev.error # "none") =>
    LET rs == hostAct.sent[1].results
        before == hostAct.sent[1].registered
        k == ev.done + 1
    IN
      /\ ev.error = "IllegalStateError"
      /\ k <= Len(rs)
      /\ rs[k].seq \notin before \ NamedBefore(rs, k)
      /\ \A i \in 1..(k - 1) :
           /\ rs[i].seq \in before
           /\ rs[i].seq \notin completions.dependency
           /\ promises[rs[i].seq].status # "pending"
           /\ promises[rs[i].seq].by = <<rs[i]>>
      /\ \A i \in (k + 1)..Len(rs) :
           rs[i].seq \in before \ NamedBefore(rs, k) =>
             /\ rs[i].seq \in completions.dependency
             /\ promises[rs[i].seq].status = "pending"

C29_Witness ==
  /\ ev.op = "resolveExternalDependencies" /\ ev.error = "IllegalStateError"
  /\ ev.done = 1 /\ ev.entries = 3
  /\ hostAct.sent[1].registered = {0, 2}
  /\ hostAct.sent[1].results[1].seq = 0
  /\ hostAct.sent[1].results[3].seq = 2
  /\ completions.dependency = {2}
  /\ promises[0].status = "rejected" /\ promises[2].status = "pending"
  /\ mode = "micro"


\* ---------------------------------------------------------------- C30
\* The blocked conditions whose predicate evaluates to true.
TrueConditions == {i \in 1..Len(blockedConditions) : blockedConditions[i].fn \in flags}

\* C30 as stated: when Workflow.activate returns a completion, no condition left
\* in blockedConditions has a predicate that evaluates to true.
C30_AsStated ==
  (Concluded("complete") /\ hostPc = "idle") => TrueConditions = {}

\* The case that escapes: code resumed by an external-call result registered
\* a condition and then made it true, while the worker holds
\* numBlockedConditions = 0 from before the results were sent.
C30_StaleCount ==
  /\ ev.op = "setFlag" /\ mode = "micro"
  /\ \E i \in 1..Len(blockedConditions) : blockedConditions[i].fn = ev.flag
  /\ hostAct.numBlocked = 0
  /\ hostAct.calls # <<>>

====
